---- MODULE Spec2Model ----
(***************************************************************************)
(* A state-machine model of the TgMusic core:                              *)
(*   - ChatCacher, the per-chat playback queue      (core/_cacher.py)      *)
(*   - HttpxClient.download_file / make_request     (core/_httpx.py)       *)
(*   - SpotifyDownload.process, the acquisition     (core/_httpx.py)       *)
(* Each part has its own specification over the shared variable tuple.     *)
(***************************************************************************)
EXTENDS Integers, Sequences, FiniteSets, TLC

(***************************************************************************)
(* Bounds of the model                                                     *)
(***************************************************************************)
MaxQueue == 3          \* entries enqueued, over all chats, in the current runs
MaxCalls == 3          \* cache calls issued in the concurrent-task specification

NChunks == 2           \* chunks in the body of a downloaded file

Chats == {1, 2}        \* chat ids
Tasks == {1, 2}        \* concurrently running coroutines

\* Optional values: None is the empty tuple, a present value v is <<v>>
None == <<>>
Some(v) == <<v>>

Min(a, b) == IF a < b THEN a ELSE b

(***************************************************************************)
(* Text: a Python str is a sequence of one-character strings.              *)
(***************************************************************************)
ControlChars == {"\t", "\n", "\r", "\f"}   \* members of [\x00-\x1F\x7F]

TextCap == 4096

\* the concatenation of a list of texts, joined half by half
RECURSIVE Concat(_)
Concat(ss) ==
    IF Len(ss) = 0 THEN <<>>
    ELSE IF Len(ss) = 1 THEN ss[1]
    ELSE LET half == Len(ss) \div 2
         IN  Concat(SubSeq(ss, 1, half)) \o Concat(SubSeq(ss, half + 1, Len(ss)))

\* str.replace(old, new) for a one-character old
Replace(text, old, new) ==
    Concat([i \in 1..Len(text) |-> IF text[i] = old THEN new ELSE <<text[i]>>])

\* html.escape(s, quote=True): & first, then <, >, ", '
HtmlEscape(text) ==
    LET s1 == Replace(text, "&", <<"&", "a", "m", "p", ";">>)
        s2 == Replace(s1, "<", <<"&", "l", "t", ";">>)
        s3 == Replace(s2, ">", <<"&", "g", "t", ";">>)
        s4 == Replace(s3, "\"", <<"&", "q", "u", "o", "t", ";">>)
    IN  Replace(s4, "'", <<"&", "#", "x", "2", "7", ";">>)

\* re.sub(r"[\x00-\x1F\x7F]", "", text)
StripControl(text) == SelectSeq(text, LAMBDA ch : ch \notin ControlChars)

\* ChatCacher._sanitize_text
CacherSanitizeText(text) ==
    IF text = <<>>
    THEN <<>>
    ELSE LET t == StripControl(HtmlEscape(text))
         IN  SubSeq(t, 1, Min(Len(t), TextCap))

\* ApiData._sanitize_text: &, < and > are replaced, the control characters
\* removed; no quotes, no cap
ApiSanitizeText(text) ==
    IF text = <<>>
    THEN text
    ELSE LET s1 == Replace(text, "&", <<"&", "a", "m", "p", ";">>)
             s2 == Replace(s1, "<", <<"&", "l", "t", ";">>)
             s3 == Replace(s2, ">", <<"&", "g", "t", ";">>)
         IN  StripControl(s3)

\* _sanitize_text of modules/callback.py
CallbackSanitizeText(text) ==
    IF text = <<>>
    THEN <<>>
    ELSE LET t == StripControl(HtmlEscape(text))
         IN  SubSeq(t, 1, Min(Len(t), TextCap))

UnknownArtist ==
    <<"U", "n", "k", "n", "o", "w", "n", " ", "A", "r", "t", "i", "s", "t">>

\* getattr(obj, name, default); the attribute is None when the object lacks it
GetAttr(attr, default) == IF attr = None THEN default ELSE attr[1]

(***************************************************************************)
(* CachedTrack values submitted to the cache                               *)
(***************************************************************************)
Song1 ==
    [track_id |-> "t1", name |-> <<"a", "<">>, url |-> <<"u", "&">>,
     user |-> <<"x", "\t">>, platform |-> "spotify", duration |-> 200,
     is_video |-> FALSE, file_path |-> "t1.mp3", loop |-> 0,
     artist |-> Some(<<"b", ">">>), thumbnail |-> Some(<<>>)]

Song2 ==
    [track_id |-> "t2", name |-> <<"c">>, url |-> <<"v">>,
     user |-> <<"y">>, platform |-> "spotify", duration |-> 0,
     is_video |-> FALSE, file_path |-> "t2.mp3", loop |-> 1,
     artist |-> None, thumbnail |-> None]

Songs == {Song1, Song2}

LoopValues == {2}   \* arguments given to set_loop_count

(***************************************************************************)
(* ChatCacher: chat_cache is a dict chat_id -> {"is_active", "queue"}      *)
(***************************************************************************)
NewChat(active) == [is_active |-> active, queue |-> <<>>]

EmptyDict == [c \in {} |-> NewChat(TRUE)]

\* dict.setdefault(key, default), as the dict after the call
SetDefault(cc, c, default) ==
    IF c \in DOMAIN cc THEN cc ELSE cc @@ (c :> default)

\* self.chat_cache.get(chat_id, {}).get("queue"): None (the empty tuple) when
\* the chat is absent, which Python's truth test treats like an empty deque
QueueOf(cc, c) == IF c \in DOMAIN cc THEN cc[c].queue ELSE None

\* Python truthiness of a deque-or-None
Truthy(queue) == queue # <<>>

\* the CachedTrack built at add_song lines 52-64
SanitizedSong(song) ==
    [track_id |-> song.track_id,
     name |-> CacherSanitizeText(song.name),
     url |-> CacherSanitizeText(song.url),
     user |-> CacherSanitizeText(song.user),
     platform |-> song.platform,
     duration |-> song.duration,
     is_video |-> song.is_video,
     file_path |-> song.file_path,
     loop |-> song.loop,
     artist |-> CacherSanitizeText(GetAttr(song.artist, UnknownArtist)),
     thumbnail |-> CacherSanitizeText(GetAttr(song.thumbnail, <<>>))]

\* sanitized_song for each of the CachedTrack values above, computed once
Sanitized == [song \in Songs |-> SanitizedSong(song)]

\* sanitized_song of add_song
sanitized_song(song) ==
    IF song \in Songs THEN Sanitized[song] ELSE SanitizedSong(song)

\* mutant: the chat's state is rebuilt on every call instead of setdefault
add_song_overwrite(cc, c, song) ==
    [x \in DOMAIN cc \cup {c} |->
        IF x = c THEN [is_active |-> TRUE, queue |-> <<sanitized_song(song)>>]
        ELSE cc[x]]

\* mutant: every enqueue switches the chat on
add_song_activate(cc, c, song) ==
    LET data == SetDefault(cc, c, NewChat(TRUE))
    IN  [data EXCEPT ![c].queue = Append(@, sanitized_song(song)),
                     ![c].is_active = TRUE]

\* mutant: the entry is pushed at the head (appendleft)
add_song_front(cc, c, song) ==
    LET data == SetDefault(cc, c, NewChat(TRUE))
    IN  [data EXCEPT ![c].queue = <<sanitized_song(song)>> \o @]

\* ChatCacher.add_song: the cache after the call
add_song(cc, c, song) ==
    LET data == SetDefault(cc, c, NewChat(TRUE))
    IN  [data EXCEPT ![c].queue = Append(@, sanitized_song(song))]

\* ChatCacher.add_song line 67: the value the call returns
add_song_return(cc, c, song) == sanitized_song(song)

\* mutant: the lookup inserts its default, as setdefault would
Lookup_setdefault(cc, c) == SetDefault(cc, c, NewChat(FALSE))

\* self.chat_cache.get(chat_id, {}), as the dict after the call: the lookup
\* of every method that reads the cache; the default is returned, not stored
Lookup(cc, c) == cc

\* ChatCacher.get_playing_track
get_playing_track(cc, c) ==
    LET queue == QueueOf(cc, c)
    IN  IF Truthy(queue) THEN Some(queue[1]) ELSE None

\* ChatCacher.get_upcoming_track
get_upcoming_track(cc, c) ==
    LET queue == QueueOf(cc, c)
    IN  IF Truthy(queue) /\ Len(queue) > 1 THEN Some(queue[2]) ELSE None

\* mutant: draining the queue forgets the chat
remove_current_song_expire(cc, c) ==
    LET queue == QueueOf(cc, c)
    IN  IF Truthy(queue)
        THEN [cache |-> IF Len(queue) = 1
                        THEN [x \in DOMAIN cc \ {c} |-> cc[x]]
                        ELSE [cc EXCEPT ![c].queue = Tail(queue)],
              ret |-> Some(Head(queue))]
        ELSE [cache |-> cc, ret |-> None]

\* mutant: the entry is taken from the tail (pop instead of popleft)
remove_current_song_pop(cc, c) ==
    LET queue == QueueOf(cc, c)
    IN  IF Truthy(queue)
        THEN [cache |-> [cc EXCEPT ![c].queue = SubSeq(queue, 1, Len(queue) - 1)],
              ret |-> Some(queue[Len(queue)])]
        ELSE [cache |-> cc, ret |-> None]

\* ChatCacher.remove_current_song: [cache after the call, returned value]
remove_current_song(cc, c) ==
    LET queue == QueueOf(cc, c)
    IN  IF Truthy(queue)
        THEN [cache |-> [cc EXCEPT ![c].queue = Tail(queue)], ret |-> Some(Head(queue))]
        ELSE [cache |-> cc, ret |-> None]

\* ChatCacher.is_active
is_active(cc, c) == IF c \in DOMAIN cc THEN cc[c].is_active ELSE FALSE

\* mutant: set_active relies on setdefault and never assigns the flag
set_active_default_only(cc, c, active) == SetDefault(cc, c, NewChat(active))

\* ChatCacher.set_active
set_active(cc, c, active) ==
    LET data == SetDefault(cc, c, NewChat(active))
    IN  [data EXCEPT ![c].is_active = active]

\* mutant: the whole dict is emptied
clear_chat_all(cc, c) == [x \in {} |-> cc[x]]

\* mutant: only the queue is emptied, the chat stays in the dict
clear_chat_queue_only(cc, c) ==
    IF c \in DOMAIN cc THEN [cc EXCEPT ![c].queue = <<>>] ELSE cc

\* ChatCacher.clear_chat: dict.pop(chat_id, None)
clear_chat(cc, c) == [x \in DOMAIN cc \ {c} |-> cc[x]]

\* ChatCacher.get_queue_length
get_queue_length(cc, c) == IF c \in DOMAIN cc THEN Len(cc[c].queue) ELSE 0

\* ChatCacher.get_loop_count
get_loop_count(cc, c) ==
    LET queue == IF c \in DOMAIN cc THEN cc[c].queue ELSE <<>>
    IN  IF queue # <<>> THEN queue[1].loop ELSE 0

\* mutant: the loop count is written to the entry at the tail
set_loop_count_last(cc, c, loop) ==
    LET queue == IF c \in DOMAIN cc THEN cc[c].queue ELSE <<>>
    IN  IF queue # <<>>
        THEN [cache |-> [cc EXCEPT ![c].queue[Len(queue)].loop = loop],
              ret |-> TRUE]
        ELSE [cache |-> cc, ret |-> FALSE]

\* ChatCacher.set_loop_count: [cache after the call, returned value]
set_loop_count(cc, c, loop) ==
    LET queue == IF c \in DOMAIN cc THEN cc[c].queue ELSE <<>>
    IN  IF queue # <<>>
        THEN [cache |-> [cc EXCEPT ![c].queue[1].loop = loop], ret |-> TRUE]
        ELSE [cache |-> cc, ret |-> FALSE]

\* list.pop(i) for 0 <= i < len: the list without its element at 0-based i
ListPop(list, i) ==
    [k \in 1..(Len(list) - 1) |-> IF k <= i THEN list[k] ELSE list[k + 1]]

\* mutant: the copy loses the tail behind the removed position
remove_track_truncate(cc, c, queue_index) ==
    LET queue == QueueOf(cc, c)
    IN  IF Truthy(queue) /\ 0 <= queue_index /\ queue_index < Len(queue)
        THEN [cache |-> [cc EXCEPT ![c].queue = SubSeq(queue, 1, queue_index)],
              ret |-> TRUE]
        ELSE [cache |-> cc, ret |-> FALSE]

\* mutant: a negative index counts from the tail, as list.pop alone does
remove_track_negative(cc, c, queue_index) ==
    LET queue == QueueOf(cc, c)
    IN  IF Truthy(queue) /\ queue_index < Len(queue)
        THEN [cache |-> [cc EXCEPT ![c].queue =
                            IF queue_index < 0
                            THEN SubSeq(queue, 1, Len(queue) - 1)
                            ELSE ListPop(queue, queue_index)],
              ret |-> TRUE]
        ELSE [cache |-> cc, ret |-> FALSE]

\* ChatCacher.remove_track: [cache after the call, returned value]
remove_track(cc, c, queue_index) ==
    LET queue == QueueOf(cc, c)
    IN  IF Truthy(queue) /\ 0 <= queue_index /\ queue_index < Len(queue)
        THEN [cache |-> [cc EXCEPT ![c].queue = ListPop(queue, queue_index)],
              ret |-> TRUE]
        ELSE [cache |-> cc, ret |-> FALSE]

\* ChatCacher.get_queue
get_queue(cc, c) == IF c \in DOMAIN cc THEN cc[c].queue ELSE <<>>

\* the keys of a dict as the list an iteration over it yields; the model
\* keeps no insertion order and lists the keys in ascending order
RECURSIVE Keys(_)
Keys(keys) ==
    IF keys = {} THEN <<>>
    ELSE LET k == CHOOSE x \in keys : \A y \in keys : x <= y
         IN  <<k>> \o Keys(keys \ {k})

\* the members of a list
Elems(list) == {list[k] : k \in DOMAIN list}

\* ChatCacher.get_active_chats
get_active_chats(cc) ==
    SelectSeq(Keys(DOMAIN cc), LAMBDA c : cc[c].is_active)


(***************************************************************************)
(* The queue of section 4.4 as a sequential reference: what each operation *)
(* yields when the operations of a chat are applied one at a time.         *)
(***************************************************************************)
RefUntracked == [tracked |-> FALSE, queue |-> <<>>]

RefEnqueue(r, entry) == [tracked |-> TRUE, queue |-> Append(r.queue, entry)]

RefPopHead(r) == IF r.queue = <<>> THEN r ELSE [r EXCEPT !.queue = Tail(@)]

RefRemoveAt(r, i) ==
    IF 0 <= i /\ i < Len(r.queue)
    THEN [r EXCEPT !.queue = SubSeq(@, 1, i) \o SubSeq(@, i + 2, Len(@))]
    ELSE r

RefSetLoop(r, n) ==
    IF r.queue = <<>> THEN r ELSE [r EXCEPT !.queue[1].loop = n]

(***************************************************************************)
(* The downloads directory.  One track id is acquired; its files are       *)
(* {tc}.encrypted.ogg, {tc}.decrypted.ogg, {tc}.mp3 and the .part siblings *)
(* download_file writes to.  A file is modelled by its path: its content   *)
(* is a kind and the number of body chunks it holds.                       *)
(***************************************************************************)
EncryptedFile == "tc.encrypted.ogg"      \* SpotifyDownload.encrypted_file
DecryptedFile == "tc.decrypted.ogg"      \* SpotifyDownload.decrypted_file
OutputFile == "tc.mp3"                   \* SpotifyDownload.output_file
EncryptedPart == "tc.encrypted.ogg.part"
OutputPart == "tc.mp3.part"

Files == {EncryptedFile, DecryptedFile, OutputFile, EncryptedPart, OutputPart}

Absent == [kind |-> "absent", n |-> 0]
Body(n) == [kind |-> "body", n |-> n]        \* n chunks of the response body
Plain(n) == [kind |-> "plain", n |-> n]      \* decrypted, header not repaired
Half(n) == [kind |-> "half", n |-> n]        \* header patch broken off
Ogg(n) == [kind |-> "ogg", n |-> n]          \* decrypted, header repaired
Mp3Part(n) == [kind |-> "mp3part", n |-> n]  \* remux output being written
Mp3(n) == [kind |-> "mp3", n |-> n]          \* remux output, finished
Garbage == [kind |-> "garbage", n |-> 0]     \* interleaved writes

\* os.path.exists / Path.exists
Exists(f, path) == f[path].kind # "absent"

\* the content is a whole playable file
Complete(c) == c.kind \in {"body", "mp3"} /\ c.n = NChunks

\* mutant: the body is streamed straight into the destination
temp_path_direct(path) == path

\* download_file line 174: temp_path = path.with_suffix(f"{path.suffix}.part")
temp_path(path) ==
    IF path = EncryptedFile THEN EncryptedPart ELSE OutputPart

\* process lines 392-403: the destination given to download_file
DownloadTarget(tr) == IF tr.key THEN EncryptedFile ELSE OutputFile

\* _cleanup line 368: the files it removes
CleanupFiles == {EncryptedFile, DecryptedFile}

\* what process() returns
NoResult == "none"
ResPath == "Path(output_file)"
ErrMissing == "Error(400, Missing CDN URL)"
ErrDownload == "Error(500, Download failed)"
ErrProcessing == "Error(500, Error processing track)"
\* the call ended with an exception instead of a return value
Raised == "raised"

(***************************************************************************)
(* State                                                                   *)
(***************************************************************************)
VARIABLES
    chat_cache,   \* ChatCacher.chat_cache
    run,          \* per chat: the entries add_song stored since the queue
                  \* was last empty, the entries remove_current_song has
                  \* returned since, and whether no remove_track intervened
    ref,          \* per chat: the sequential reference queue
    pend,         \* per task: the cache call it is about to run
    calls,        \* number of cache calls issued by the tasks
    raced         \* some call was issued while another task's call on the
                  \* same chat was still outstanding

cacheVars == <<chat_cache, run, ref, pend, calls, raced>>

VARIABLES
    track,        \* the TrackInfo being acquired: is cdnurl set, is key set
    fs,           \* the downloads directory: path -> content
    pc,           \* per task: where its SpotifyDownload.process() stands
    pos,          \* per task: chunks of the response body it has written
    res,          \* per task: what its process() returned
    work,         \* per task: the steps its current call has performed
    cold,         \* per task: the output file was absent when the call began
    ovl,          \* per task: another call was running during this call
    rmfail,       \* per task: files _cleanup could not remove in this call
    prev,         \* per task: what the call completed before this one returned
    last,         \* what the most recently completed call returned
    clobbered     \* a task removed or overwrote an intermediate file that
                  \* another task had open

acqVars == <<track, fs, pc, pos, res, work, cold, ovl, rmfail, prev, last,
             clobbered>>

VARIABLES
    req           \* the make_request() call in progress: its arguments, its
                  \* loop variable "attempt", last_error, the requests sent
                  \* and the delays slept so far, what it logged last and
                  \* what it returned

reqVars == <<req>>

VARIABLES
    san           \* a text on its way through a sanitizer: the text as
                  \* submitted, the sanitizer applied, its result, the result
                  \* of applying it again, and how the text was enqueued

sanVars == <<san>>

\* no text has been submitted
NoText == [text |-> <<>>, by |-> "none", once |-> None, twice |-> None,
           stored |-> "none"]

SanStart == san = NoText

VARIABLES
    norm          \* a response on its way through the normalizer: the value
                  \* given to _parse_tracks_response or to _parse_duration,
                  \* and what the call returned

normVars == <<norm>>

\* a value of a JSON payload with its Python type: the number of an int,
\* the characters of a str, the elements of a list, the (key, value) pairs
\* of a dict
Null == [t |-> "NoneType", n |-> 0, s |-> <<>>, l |-> <<>>, d |-> {}]
IntV(n) == [Null EXCEPT !.t = "int", !.n = n]
StrV(s) == [Null EXCEPT !.t = "str", !.s = s]
ListV(l) == [Null EXCEPT !.t = "list", !.l = l]
DictV(d) == [Null EXCEPT !.t = "dict", !.d = d]
BytesV == [Null EXCEPT !.t = "bytes"]

\* what _parse_tracks_response returns: types.Error or PlatformTracks
Error(code, message) ==
    [t |-> "Error", code |-> code, message |-> message, tracks |-> <<>>]

PlatformTracks(tracks) ==
    [t |-> "PlatformTracks", code |-> 0, message |-> "", tracks |-> tracks]

NoTracks == [t |-> "none", code |-> 0, message |-> "", tracks |-> <<>>]

\* nothing has been given to the normalizer
NoResponse ==
    [call |-> "none", arg |-> Null, out |-> NoTracks, dur |-> Null,
     done |-> FALSE]

NormStart == norm = NoResponse

VARIABLES
    api,          \* an ApiData object and the call made on it: the query as
                  \* given, self.query, the method called, the endpoints
                  \* requested so far and what the call returned
    sem,          \* _concurrency_limiter: its counter, its queue of waiters
                  \* and how many at the front of the queue hold a permit
    stage,        \* where the scan or participant update that is followed
                  \* stands, and how many of the other ones are inside
    cb            \* the callback query being handled: its data and chat,
                  \* where the handler stands, what is_admin answered and
                  \* the calls made to the audio transport

extVars == <<api, sem, stage, cb>>

\* no ApiData object has been built
NoApiCall ==
    [pc |-> "idle", op |-> "none", raw |-> None, query |-> None,
     sent |-> <<>>, out |-> NoTracks]

ApiStart == api = NoApiCall

MaxWorkers == 11   \* scans and participant updates that may run at a time

\* asyncio.Semaphore(10), jobs.py line 23
Permits == 10

JobStart ==
    /\ sem = [value |-> Permits, waiters |-> <<>>, woken |-> 0]
    /\ stage = [me |-> "idle", inside |-> 0]

\* no callback query is being handled
NoCallback ==
    [pc |-> "idle", data |-> "", chat |-> 0, admin |-> "unasked",
     calls |-> <<>>, answer |-> ""]

CbStart == cb = NoCallback

ExtStart == ApiStart /\ JobStart /\ CbStart

\* no make_request() call has been made
NoRequest ==
    [pc |-> "idle", url |-> "", max_retries |-> 0, backoff_factor |-> 0,
     attempt |-> 0, sent |-> <<>>, delays |-> <<>>, last_error |-> None,
     log |-> "", result |-> None]

ReqStart == req = NoRequest

NoCall == [op |-> "none", chat |-> 0, song |-> Song1, arg |-> 0]

\* no acquisition has run: an empty downloads directory, every task idle
AcqStart ==
    /\ fs = [f \in Files |-> Absent]
    /\ pc = [t \in Tasks |-> "idle"]
    /\ pos = [t \in Tasks |-> 0]
    /\ res = [t \in Tasks |-> NoResult]
    /\ work = [t \in Tasks |-> {}]
    /\ cold = [t \in Tasks |-> FALSE]
    /\ ovl = [t \in Tasks |-> FALSE]
    /\ rmfail = [t \in Tasks |-> {}]
    /\ prev = [t \in Tasks |-> NoResult]
    /\ last = NoResult
    /\ clobbered = FALSE

NewRun == [enq |-> <<>>, popped |-> <<>>, clean |-> TRUE]

CacheStart ==
    /\ chat_cache = EmptyDict                      \* ChatCacher.__init__
    /\ run = [c \in Chats |-> NewRun]
    /\ ref = [c \in Chats |-> RefUntracked]
    /\ pend = [t \in Tasks |-> NoCall]
    /\ calls = 0
    /\ raced = FALSE

InitCache ==
    /\ CacheStart
    /\ ExtStart
    /\ AcqStart
    /\ ReqStart
    /\ SanStart
    /\ NormStart
    /\ track = [cdnurl |-> TRUE, key |-> TRUE]

(***************************************************************************)
(* The effect of one cache call on the cache and on the bookkeeping.  The  *)
(* methods of ChatCacher are plain (non-async) functions: they contain no  *)
(* suspension point, so under the cooperative scheduler each call runs as  *)
(* one step.                                                               *)
(***************************************************************************)
DoAddSong(c, song) ==
    LET cc == add_song(chat_cache, c, song)
        stored == cc[c].queue[Len(cc[c].queue)]
        fresh == get_queue(chat_cache, c) = <<>>
    IN  /\ chat_cache' = cc
        /\ run' = [run EXCEPT ![c] =
                      IF fresh
                      THEN [enq |-> <<stored>>, popped |-> <<>>, clean |-> TRUE]
                      ELSE [@ EXCEPT !.enq = Append(@, stored)]]
        /\ ref' = [ref EXCEPT ![c] = RefEnqueue(@, sanitized_song(song))]

DoRemoveCurrentSong(c) ==
    LET r == remove_current_song(chat_cache, c)
    IN  /\ chat_cache' = r.cache
        /\ run' = [run EXCEPT ![c].popped = @ \o r.ret]
        /\ ref' = [ref EXCEPT ![c] = RefPopHead(@)]

DoRemoveTrack(c, i) ==
    LET r == remove_track(chat_cache, c, i)
    IN  /\ chat_cache' = r.cache
        /\ run' = [run EXCEPT ![c].clean = IF r.ret THEN FALSE ELSE @]
        /\ ref' = [ref EXCEPT ![c] = RefRemoveAt(@, i)]

\* queue[0].loop = loop mutates the stored object, which is the object
\* add_song returned: the run's record of that entry changes with it
DoSetLoopCount(c, n) ==
    LET r == set_loop_count(chat_cache, c, n)
        k == Len(run[c].popped) + 1
    IN  /\ chat_cache' = r.cache
        /\ run' = IF r.ret /\ run[c].clean /\ k <= Len(run[c].enq)
                  THEN [run EXCEPT ![c].enq[k].loop = n]
                  ELSE run
        /\ ref' = [ref EXCEPT ![c] = RefSetLoop(@, n)]

DoSetActive(c, b) ==
    /\ chat_cache' = set_active(chat_cache, c, b)
    /\ ref' = [ref EXCEPT ![c].tracked = TRUE]
    /\ UNCHANGED run

DoClearChat(c) ==
    /\ chat_cache' = clear_chat(chat_cache, c)
    /\ run' = [run EXCEPT ![c] = NewRun]
    /\ ref' = [ref EXCEPT ![c] = RefUntracked]

(***************************************************************************)
(* SpecCache: the cache driven through its public operations               *)
(***************************************************************************)
RECURSIVE SumLen(_, _)
SumLen(f, S) ==
    IF S = {} THEN 0
    ELSE LET x == CHOOSE y \in S : TRUE IN Len(f[x].enq) + SumLen(f, S \ {x})

Enqueued == SumLen(run, Chats)

AddSong(c, song) ==
    /\ Enqueued < MaxQueue
    /\ DoAddSong(c, song)
    /\ UNCHANGED <<pend, calls, raced, acqVars, reqVars, sanVars, normVars, extVars>>

RemoveCurrentSong(c) ==
    /\ DoRemoveCurrentSong(c)
    /\ UNCHANGED <<pend, calls, raced, acqVars, reqVars, sanVars, normVars, extVars>>

RemoveTrack(c, i) ==
    /\ DoRemoveTrack(c, i)
    /\ UNCHANGED <<pend, calls, raced, acqVars, reqVars, sanVars, normVars, extVars>>

SetLoopCount(c, n) ==
    /\ DoSetLoopCount(c, n)
    /\ UNCHANGED <<pend, calls, raced, acqVars, reqVars, sanVars, normVars, extVars>>

SetActive(c, b) ==
    /\ DoSetActive(c, b)
    /\ UNCHANGED <<pend, calls, raced, acqVars, reqVars, sanVars, normVars, extVars>>

ClearChat(c) ==
    /\ DoClearChat(c)
    /\ UNCHANGED <<pend, calls, raced, acqVars, reqVars, sanVars, normVars, extVars>>

Indexes == (0 - 1)..MaxQueue     \* queue_index arguments, out of range included

vars == <<cacheVars, acqVars, reqVars, sanVars, normVars, extVars>>

NextCache ==
    \/ \E c \in Chats, song \in Songs : AddSong(c, song)
    \/ \E c \in Chats : RemoveCurrentSong(c)
    \/ \E c \in Chats, i \in Indexes : RemoveTrack(c, i)
    \/ \E c \in Chats, n \in LoopValues : SetLoopCount(c, n)
    \/ \E c \in Chats, b \in BOOLEAN : SetActive(c, b)
    \/ \E c \in Chats : ClearChat(c)

SpecCache == InitCache /\ [][NextCache]_vars

(***************************************************************************)
(* C1  Queue FIFO: in a run of add_song calls that started on an empty     *)
(* queue, with no remove_track in between, the entries stored so far are   *)
(* the entries remove_current_song has returned so far, in the order they  *)
(* were returned, followed by get_queue: before any pop get_queue is       *)
(* [e1..en], and once the queue is drained the pops returned e1..en.       *)
(***************************************************************************)
QueueFifo ==
    \A c \in Chats :
        run[c].clean => run[c].enq = run[c].popped \o get_queue(chat_cache, c)

\* three entries, not all alike, were enqueued and then drained in order
QueueFifoWitness ==
    \E c \in Chats :
        /\ run[c].clean
        /\ Len(run[c].enq) = 3
        /\ run[c].enq[1] # run[c].enq[2]
        /\ run[c].popped = run[c].enq
        /\ c \in DOMAIN chat_cache
        /\ get_queue(chat_cache, c) = <<>>

(***************************************************************************)
(* SpecCacheConc: tasks issue cache calls; a call that has been issued     *)
(* runs when the scheduler resumes its task, so the calls of different     *)
(* tasks take effect in any order.                                         *)
(***************************************************************************)
CallSet ==
    {[op |-> "add_song", chat |-> c, song |-> sg, arg |-> 0] :
        c \in Chats, sg \in Songs}
    \cup {[op |-> "remove_current_song", chat |-> c, song |-> Song1, arg |-> 0] :
        c \in Chats}
    \cup {[op |-> "remove_track", chat |-> c, song |-> Song1, arg |-> i] :
        c \in Chats, i \in Indexes}
    \cup {[op |-> "set_loop_count", chat |-> c, song |-> Song1, arg |-> n] :
        c \in Chats, n \in LoopValues}

Issue(t, call) ==
    /\ pend[t] = NoCall
    /\ calls < MaxCalls
    /\ pend' = [pend EXCEPT ![t] = call]
    /\ calls' = calls + 1
    /\ raced' = (raced \/ \E u \in Tasks \ {t} : pend[u].chat = call.chat)
    /\ UNCHANGED <<chat_cache, run, ref, acqVars, reqVars, sanVars, normVars, extVars>>

Return(t) ==
    /\ pend' = [pend EXCEPT ![t] = NoCall]
    /\ UNCHANGED <<calls, raced, acqVars, reqVars, sanVars, normVars, extVars>>

RunAddSong(t) ==
    /\ pend[t].op = "add_song"
    /\ DoAddSong(pend[t].chat, pend[t].song)
    /\ Return(t)

RunRemoveCurrentSong(t) ==
    /\ pend[t].op = "remove_current_song"
    /\ DoRemoveCurrentSong(pend[t].chat)
    /\ Return(t)

RunRemoveTrack(t) ==
    /\ pend[t].op = "remove_track"
    /\ DoRemoveTrack(pend[t].chat, pend[t].arg)
    /\ Return(t)

RunSetLoopCount(t) ==
    /\ pend[t].op = "set_loop_count"
    /\ DoSetLoopCount(pend[t].chat, pend[t].arg)
    /\ Return(t)

NextCacheConc ==
    \/ \E t \in Tasks, call \in CallSet : Issue(t, call)
    \/ \E t \in Tasks : RunAddSong(t)
    \/ \E t \in Tasks : RunRemoveCurrentSong(t)
    \/ \E t \in Tasks : RunRemoveTrack(t)
    \/ \E t \in Tasks : RunSetLoopCount(t)

SpecCacheConc == InitCache /\ [][NextCacheConc]_vars

(***************************************************************************)
(* C2  Linearizable queue mutations: whatever the order in which the calls *)
(* issued by concurrent tasks take effect, each chat's queue is the queue  *)
(* obtained by applying those calls one at a time in the order they took   *)
(* effect; an entry enqueued while another call was outstanding is neither *)
(* lost nor discarded by a racing remove_track.                            *)
(***************************************************************************)
QueueLinearizable ==
    \A c \in Chats : get_queue(chat_cache, c) = ref[c].queue

\* calls of two tasks on one chat were outstanding together, all of them
\* have run, a remove_track among them succeeded and an entry is queued
QueueLinearizableWitness ==
    \E c \in Chats :
        /\ raced
        /\ \A t \in Tasks : pend[t] = NoCall
        /\ ~run[c].clean
        /\ Len(get_queue(chat_cache, c)) >= 1


(***************************************************************************)
(* Acquisition: SpotifyDownload.process() run by tasks of one event loop.  *)
(* A task gives up control only at an await: each action below is the code *)
(* between two suspension points.                                          *)
(***************************************************************************)
InitAcq ==
    /\ CacheStart
    /\ ExtStart
    /\ AcqStart
    /\ ReqStart
    /\ SanStart
    /\ NormStart
    /\ track \in [cdnurl : BOOLEAN, key : BOOLEAN]

Running(t) == pc[t] \notin {"idle", "done"}

\* the files a task holds open at its suspension point
Using(t) ==
    CASE pc[t] = "dl_write" -> {temp_path(DownloadTarget(track))}
      [] pc[t] = "dec_copy" -> {EncryptedFile, DecryptedFile}
      [] pc[t] = "rebuild_write" -> {DecryptedFile}
      [] pc[t] = "ffmpeg" -> {DecryptedFile, OutputFile}
      [] OTHER -> {}

\* task t removes or overwrites paths: is one of them an intermediate file
\* another task has open
Hits(t, paths) ==
    \E u \in Tasks \ {t} : Using(u) \cap paths \cap CleanupFiles # {}

\* mutant: the existing-file shortcut is missing
output_exists_never(f) == FALSE

\* process line 379: os.path.exists(self.output_file)
output_exists(f) == Exists(f, OutputFile)

\* mutant: the check of the CDN location is missing
missing_cdnurl_never(tr) == FALSE

\* process line 384: not self.track.cdnurl
missing_cdnurl(tr) == ~tr.cdnurl

\* process lines 379-394, up to the request download_file sends
Start(t) ==
    /\ pc[t] = "idle"
    /\ prev' = [prev EXCEPT ![t] = last]
    /\ cold' = [cold EXCEPT ![t] = ~Exists(fs, OutputFile)]
    /\ ovl' = [u \in Tasks |->
                 IF u = t THEN \E v \in Tasks \ {t} : Running(v)
                 ELSE ovl[u] \/ Running(u)]
    /\ IF output_exists(fs)
       THEN /\ pc' = [pc EXCEPT ![t] = "done"]
            /\ res' = [res EXCEPT ![t] = ResPath]
            /\ UNCHANGED work
       ELSE IF missing_cdnurl(track)
       THEN /\ pc' = [pc EXCEPT ![t] = "done"]
            /\ res' = [res EXCEPT ![t] = ErrMissing]
            /\ UNCHANGED work
       ELSE /\ pc' = [pc EXCEPT ![t] = "dl_wait"]
            /\ work' = [work EXCEPT ![t] = {"request"}]
            /\ UNCHANGED res
    /\ UNCHANGED <<track, fs, pos, rmfail, last, clobbered, cacheVars, reqVars, sanVars, normVars, extVars>>

\* a call begins only when every earlier call has returned to its caller
StartSeq(t) ==
    /\ \A u \in Tasks : pc[u] = "idle"
    /\ Start(t)

\* mutant: the decryption pipeline runs whether or not the track has a key
AfterDownload_always_decrypt == "dec_open"

\* where process() goes on after download_file reported success
AfterDownload == IF track.key THEN "dec_open" ELSE "cleanup_ok"

\* download_file reports a failure: process lines 395-397 / 404-406
DownloadFailed(t) ==
    /\ pc' = [pc EXCEPT ![t] = "done"]
    /\ res' = [res EXCEPT ![t] = ErrDownload]
    /\ pos' = [pos EXCEPT ![t] = 0]

\* download_file lines 145-155, 195-211: no success response
DlFail(t) ==
    /\ pc[t] = "dl_wait"
    /\ DownloadFailed(t)
    /\ UNCHANGED <<track, fs, work, cold, ovl, rmfail, prev, last, clobbered,
                   cacheVars, reqVars, sanVars, normVars, extVars>>

\* download_file lines 157-175: a success response has arrived
DlResponse(t) ==
    /\ pc[t] = "dl_wait"
    /\ pc' = [pc EXCEPT ![t] =
                 IF Exists(fs, DownloadTarget(track)) THEN AfterDownload
                 ELSE "dl_open"]
    /\ UNCHANGED <<track, fs, pos, res, work, cold, ovl, rmfail, prev, last,
                   clobbered, cacheVars, reqVars, sanVars, normVars, extVars>>

\* download_file line 178: aiofiles.open(temp_path, "wb")
DlOpen(t) ==
    LET temp == temp_path(DownloadTarget(track))
    IN  /\ pc[t] = "dl_open"
        /\ fs' = [fs EXCEPT ![temp] = Body(0)]
        /\ pos' = [pos EXCEPT ![t] = 0]
        /\ pc' = [pc EXCEPT ![t] = "dl_write"]
        /\ clobbered' = (clobbered \/ Hits(t, {temp}))
        /\ UNCHANGED <<track, res, work, cold, ovl, rmfail, prev, last,
                       cacheVars, reqVars, sanVars, normVars, extVars>>

\* the file after this task wrote its next chunk at its own offset
Written(c, at) ==
    IF c.kind = "absent" THEN c
    ELSE IF c.kind = "body" /\ c.n = at THEN Body(at + 1)
    ELSE IF c.kind = "body" /\ c.n > at THEN c
    ELSE Garbage

\* download_file lines 179-180: one chunk of the body
DlChunk(t) ==
    LET temp == temp_path(DownloadTarget(track))
    IN  /\ pc[t] = "dl_write"
        /\ pos[t] < NChunks
        /\ fs' = [fs EXCEPT ![temp] = Written(@, pos[t])]
        /\ pos' = [pos EXCEPT ![t] = @ + 1]
        /\ work' = [work EXCEPT ![t] = @ \cup {"fetch"}]
        /\ UNCHANGED <<track, pc, res, cold, ovl, rmfail, prev, last,
                       clobbered, cacheVars, reqVars, sanVars, normVars, extVars>>

\* download_file lines 181-184 and 213-216: the open or a write raised; the
\* handler removes the temporary file when the removal itself works
DlWriteFail(t, removed) ==
    LET temp == temp_path(DownloadTarget(track))
    IN  /\ pc[t] \in {"dl_open", "dl_write"}
        /\ fs' = IF removed THEN [fs EXCEPT ![temp] = Absent] ELSE fs
        /\ clobbered' = (clobbered \/ (removed /\ Hits(t, {temp})))
        /\ DownloadFailed(t)
        /\ UNCHANGED <<track, work, cold, ovl, rmfail, prev, last, cacheVars, reqVars, sanVars, normVars, extVars>>

\* download_file lines 186-193: temp_path.rename(path)
DlRename(t) ==
    LET dest == DownloadTarget(track)
        temp == temp_path(dest)
    IN  /\ pc[t] = "dl_write"
        /\ pos[t] = NChunks
        /\ IF Exists(fs, temp)
           THEN /\ fs' = [f \in Files |->
                             IF f = dest THEN fs[temp]
                             ELSE IF f = temp THEN Absent ELSE fs[f]]
                /\ pc' = [pc EXCEPT ![t] = AfterDownload]
                /\ pos' = [pos EXCEPT ![t] = 0]
                /\ clobbered' = (clobbered \/ Hits(t, {dest, temp}))
                /\ UNCHANGED res
           ELSE /\ DownloadFailed(t)
                /\ UNCHANGED <<fs, clobbered>>
        /\ UNCHANGED <<track, work, cold, ovl, rmfail, prev, last, cacheVars, reqVars, sanVars, normVars, extVars>>

\* decrypt_audio lines 322-333: the cipher is set up and both files opened
DecOpen(t) ==
    /\ pc[t] = "dec_open"
    /\ Exists(fs, EncryptedFile)
    /\ fs' = [fs EXCEPT ![DecryptedFile] = Plain(0)]
    /\ pc' = [pc EXCEPT ![t] = "dec_copy"]
    /\ work' = [work EXCEPT ![t] = @ \cup {"decrypt"}]
    /\ clobbered' = (clobbered \/ Hits(t, {DecryptedFile}))
    /\ UNCHANGED <<track, pos, res, cold, ovl, rmfail, prev, last, cacheVars, reqVars, sanVars, normVars, extVars>>

\* decrypt_audio lines 334-336: the chunks are decrypted and written
DecCopy(t) ==
    LET src == fs[EncryptedFile]
        dst == fs[DecryptedFile]
    IN  /\ pc[t] = "dec_copy"
        /\ Exists(fs, EncryptedFile)
        /\ fs' = [fs EXCEPT ![DecryptedFile] =
                     IF dst.kind = "absent" THEN dst
                     ELSE IF dst.kind = "plain" /\ src.kind = "body"
                     THEN Plain(src.n)
                     ELSE Garbage]
        /\ pc' = [pc EXCEPT ![t] = "rebuild"]
        /\ UNCHANGED <<track, pos, res, work, cold, ovl, rmfail, prev, last,
                       clobbered, cacheVars, reqVars, sanVars, normVars, extVars>>

\* decrypt_audio lines 337-339: bad key, missing file or I/O error: raise
DecFail(t) ==
    /\ pc[t] \in {"dec_open", "dec_copy"}
    /\ pc' = [pc EXCEPT ![t] = "cleanup_err"]
    /\ UNCHANGED <<track, fs, pos, res, work, cold, ovl, rmfail, prev, last,
                   clobbered, cacheVars, reqVars, sanVars, normVars, extVars>>

\* rebuild_ogg lines 38-43: a missing file is logged and the call returns
RebuildOpen(t) ==
    /\ pc[t] = "rebuild"
    /\ pc' = [pc EXCEPT ![t] =
                 IF Exists(fs, DecryptedFile) THEN "rebuild_write" ELSE "fix"]
    /\ UNCHANGED <<track, fs, pos, res, work, cold, ovl, rmfail, prev, last,
                   clobbered, cacheVars, reqVars, sanVars, normVars, extVars>>

\* rebuild_ogg lines 52-69: the header fields are written
RebuildWrite(t) ==
    LET dst == fs[DecryptedFile]
    IN  /\ pc[t] = "rebuild_write"
        /\ fs' = [fs EXCEPT ![DecryptedFile] =
                     IF dst.kind = "absent" THEN dst
                     ELSE IF dst.kind \in {"plain", "ogg"} THEN Ogg(dst.n)
                     ELSE Garbage]
        /\ work' = [work EXCEPT ![t] = @ \cup {"repair"}]
        /\ pc' = [pc EXCEPT ![t] = "fix"]
        /\ UNCHANGED <<track, pos, res, cold, ovl, rmfail, prev, last,
                       clobbered, cacheVars, reqVars, sanVars, normVars, extVars>>

\* rebuild_ogg lines 70-71: a write raised; the error is logged, not raised
RebuildFail(t) ==
    LET dst == fs[DecryptedFile]
    IN  /\ pc[t] = "rebuild_write"
        /\ fs' = [fs EXCEPT ![DecryptedFile] =
                     IF dst.kind = "absent" THEN dst ELSE Half(dst.n)]
        /\ pc' = [pc EXCEPT ![t] = "fix"]
        /\ UNCHANGED <<track, pos, res, work, cold, ovl, rmfail, prev, last,
                       clobbered, cacheVars, reqVars, sanVars, normVars, extVars>>

\* fix_audio lines 346-355: ffmpeg -i decrypted -c copy output is started.
\* The tool writes the output only for a repaired input and, run without
\* -y, leaves an existing output alone.
FfmpegStart(t) ==
    LET ok == fs[DecryptedFile].kind = "ogg" /\ ~Exists(fs, OutputFile)
    IN  /\ pc[t] = "fix"
        /\ work' = [work EXCEPT ![t] = @ \cup {"remux"}]
        /\ fs' = IF ok
                 THEN [fs EXCEPT ![OutputFile] = Mp3Part(fs[DecryptedFile].n)]
                 ELSE fs
        /\ pc' = [pc EXCEPT ![t] = IF ok THEN "ffmpeg" ELSE "ffmpeg_doomed"]
        /\ UNCHANGED <<track, pos, res, cold, ovl, rmfail, prev, last,
                       clobbered, cacheVars, reqVars, sanVars, normVars, extVars>>

\* fix_audio lines 356-357: the tool exits with code 0
FfmpegExit(t) ==
    /\ pc[t] = "ffmpeg"
    /\ fs' = [fs EXCEPT ![OutputFile] =
                 IF @.kind = "mp3part" THEN Mp3(@.n) ELSE @]
    /\ pc' = [pc EXCEPT ![t] = "cleanup_ok"]
    /\ UNCHANGED <<track, pos, res, work, cold, ovl, rmfail, prev, last,
                   clobbered, cacheVars, reqVars, sanVars, normVars, extVars>>

\* fix_audio lines 357-362: the tool exits with another code; what it wrote
\* of the output stays where it is
FfmpegFail(t) ==
    /\ pc[t] \in {"ffmpeg", "ffmpeg_doomed"}
    /\ pc' = [pc EXCEPT ![t] = "cleanup_err"]
    /\ UNCHANGED <<track, fs, pos, res, work, cold, ovl, rmfail, prev, last,
                   clobbered, cacheVars, reqVars, sanVars, normVars, extVars>>

\* mutant: _cleanup without its try/except: a removal that fails raises out
\* of process
cleanup_result_raises(p, kept) ==
    IF kept # {} THEN Raised
    ELSE IF p = "cleanup_ok" THEN ResPath ELSE ErrProcessing

\* what process returns after _cleanup (lines 408-410 and 413-414); a
\* removal that raised was caught and logged inside _cleanup (lines 372-373)
cleanup_result(p, kept) ==
    IF p = "cleanup_ok" THEN ResPath ELSE ErrProcessing

\* _cleanup and the return of process, lines 408-414; kept are the files
\* whose os.remove raised (logged at line 373)
Cleanup(t, kept) ==
    LET gone == {f \in CleanupFiles : Exists(fs, f)} \ kept
    IN  /\ pc[t] \in {"cleanup_ok", "cleanup_err"}
        /\ kept \subseteq {f \in CleanupFiles : Exists(fs, f)}
        /\ fs' = [f \in Files |-> IF f \in gone THEN Absent ELSE fs[f]]
        /\ rmfail' = [rmfail EXCEPT ![t] = kept]
        /\ clobbered' = (clobbered \/ Hits(t, gone))
        /\ pc' = [pc EXCEPT ![t] = "done"]
        /\ res' = [res EXCEPT ![t] = cleanup_result(pc[t], kept)]
        /\ UNCHANGED <<track, pos, work, cold, ovl, prev, last, cacheVars, reqVars, sanVars, normVars, extVars>>

\* the caller takes the result (download_track lines 242-245)
Collect(t) ==
    /\ pc[t] = "done"
    /\ last' = res[t]
    /\ pc' = [pc EXCEPT ![t] = "idle"]
    /\ res' = [res EXCEPT ![t] = NoResult]
    /\ work' = [work EXCEPT ![t] = {}]
    /\ cold' = [cold EXCEPT ![t] = FALSE]
    /\ ovl' = [ovl EXCEPT ![t] = FALSE]
    /\ rmfail' = [rmfail EXCEPT ![t] = {}]
    /\ prev' = [prev EXCEPT ![t] = NoResult]
    /\ UNCHANGED <<track, fs, pos, clobbered, cacheVars, reqVars, sanVars, normVars, extVars>>

\* the process is killed while calls are running and started again: the
\* files stay as they are, the tasks are gone
Kill ==
    /\ \E t \in Tasks : Running(t)
    /\ pc' = [t \in Tasks |-> "idle"]
    /\ pos' = [t \in Tasks |-> 0]
    /\ res' = [t \in Tasks |-> NoResult]
    /\ work' = [t \in Tasks |-> {}]
    /\ cold' = [t \in Tasks |-> FALSE]
    /\ ovl' = [t \in Tasks |-> FALSE]
    /\ rmfail' = [t \in Tasks |-> {}]
    /\ prev' = [t \in Tasks |-> NoResult]
    /\ last' = NoResult
    /\ UNCHANGED <<track, fs, clobbered, cacheVars, reqVars, sanVars, normVars, extVars>>

Steps(t) ==
    \/ DlFail(t)
    \/ DlResponse(t)
    \/ DlOpen(t)
    \/ DlChunk(t)
    \/ \E removed \in BOOLEAN : DlWriteFail(t, removed)
    \/ DlRename(t)
    \/ DecOpen(t)
    \/ DecCopy(t)
    \/ DecFail(t)
    \/ RebuildOpen(t)
    \/ RebuildWrite(t)
    \/ RebuildFail(t)
    \/ FfmpegStart(t)
    \/ FfmpegExit(t)
    \/ FfmpegFail(t)
    \/ \E kept \in SUBSET CleanupFiles : Cleanup(t, kept)

\* calls follow one another, any number of them, across restarts
NextAcqSeq ==
    \/ \E t \in Tasks : StartSeq(t)
    \/ \E t \in Tasks : Steps(t)
    \/ \E t \in Tasks : Collect(t)
    \/ Kill

SpecAcqSeq == InitAcq /\ [][NextAcqSeq]_vars

\* every task makes one call, on an empty downloads directory; the calls
\* overlap in any way
NextAcq ==
    \/ \E t \in Tasks : Start(t)
    \/ \E t \in Tasks : Steps(t)

SpecAcq == InitAcq /\ [][NextAcq]_vars

IdempotentAcquire ==
    \A t \in Tasks :
        pc[t] = "done" /\ prev[t] = ResPath =>
            res[t] = ResPath /\ work[t] = {}

\* a second call has returned the path of an output the remux produced
IdempotentAcquireWitness ==
    \E t \in Tasks :
        /\ pc[t] = "done"
        /\ prev[t] = ResPath
        /\ res[t] = ResPath
        /\ track.key
        /\ fs[OutputFile] = Mp3(NChunks)

(***************************************************************************)
(* C5  Concurrent acquisition dedup: when two calls for the same track,    *)
(* both needing decrypt and repair, overlap and both began while the       *)
(* output file was absent, the remux tool is started by at most one of     *)
(* them.                                                                   *)
(***************************************************************************)
RemuxOnce ==
    (/\ track.key
     /\ \A t \in Tasks : pc[t] = "done" /\ ovl[t] /\ cold[t])
    => Cardinality({t \in Tasks : "remux" \in work[t]}) <= 1

(***************************************************************************)
(* C6  Concurrent calls for one track do not disturb each other: no call   *)
(* removes or overwrites the encrypted or decrypted file while another     *)
(* call has it open, and a call that returns the output path returns the   *)
(* path of a complete file.                                                *)
(***************************************************************************)
NoInterference ==
    /\ ~clobbered
    /\ \A t \in Tasks :
          pc[t] = "done" /\ res[t] = ResPath => Complete(fs[OutputFile])

(***************************************************************************)
(* C7  A failed acquisition leaves no output: when process() returns an    *)
(* error and the output path did not exist when the call began, the output *)
(* path does not exist.                                                    *)
(***************************************************************************)
FailureLeavesNoOutput ==
    \A t \in Tasks :
        (/\ pc[t] = "done"
         /\ res[t] \in {ErrMissing, ErrDownload, ErrProcessing}
         /\ cold[t])
        => ~Exists(fs, OutputFile)

(***************************************************************************)
(* C8  Cleanup always: when process() returns after it has started a       *)
(* download, the encrypted and the decrypted file are gone, except a file  *)
(* whose removal was tried in this call and failed.                        *)
(***************************************************************************)
CleanupAlways ==
    \A t \in Tasks :
        pc[t] = "done" /\ "request" \in work[t] =>
            \A f \in CleanupFiles : ~Exists(fs, f) \/ f \in rmfail[t]

(***************************************************************************)
(* HttpxClient.make_request                                                *)
(***************************************************************************)
MaxRetries == 4

MAX_RETRIES == 2
BACKOFF_FACTOR == 1

\* the arguments the calls are made with
Urls == {"", "https://api/get_track/x"}
RetryArgs == 0 .. MaxRetries
Factors == {BACKOFF_FACTOR, BACKOFF_FACTOR + 1}

\* what the server or the transport can say
Msgs == {"timed out", "connection reset"}

EmptyDictBody == [type |-> "dict", body |-> "{}"]
DictBody == [type |-> "dict", body |-> "{id: x}"]
BytesBody == [type |-> "bytes", body |-> "mp3"]
Bodies == {EmptyDictBody, DictBody, BytesBody}

RECURSIVE Pow2(_)
Pow2(k) == IF k = 0 THEN 1 ELSE 2 * Pow2(k - 1)

\* mutant: the loop makes one attempt more
range_inclusive(n) == 0 .. n

\* range(max_retries) of the for loop
range(n) == 0 .. (n - 1)

\* the request is in progress
InRequest == req.pc \in {"loop", "get", "sleep"}

\* make_request is called: the empty-url check and the set-up of the loop
ReqCall ==
    /\ req.pc \in {"idle", "returned"}
    /\ \E url \in Urls, m \in RetryArgs, b \in Factors :
         req' = IF url = ""
                THEN [NoRequest EXCEPT !.pc = "returned",
                                       !.max_retries = m,
                                       !.backoff_factor = b,
                                       !.log = "Empty URL provided"]
                ELSE [NoRequest EXCEPT !.pc = "loop", !.url = url,
                                       !.max_retries = m,
                                       !.backoff_factor = b]
    /\ UNCHANGED <<cacheVars, acqVars, sanVars, normVars, extVars>>

\* the loop has an attempt left: await self._session.get(...)
ReqSend ==
    /\ req.pc = "loop"
    /\ req.attempt \in range(req.max_retries)
    /\ req' = [req EXCEPT !.pc = "get", !.sent = Append(@, "sent")]
    /\ UNCHANGED <<cacheVars, acqVars, sanVars, normVars, extVars>>

\* the loop is over: the final log line and return None
ReqExhausted ==
    /\ req.pc = "loop"
    /\ req.attempt \notin range(req.max_retries)
    /\ req' = [req EXCEPT !.pc = "returned", !.result = None,
                          !.log = "All retries failed"]
    /\ UNCHANGED <<cacheVars, acqVars, sanVars, normVars, extVars>>

\* the outcome of the attempt in flight is recorded
Outcome(kind) == [req.sent EXCEPT ![Len(req.sent)] = kind]

\* mutant: the delay grows by the base factor each time
Backoff_linear(factor, attempt) == factor * (attempt + 1)

\* backoff_factor * (2**attempt), lines 255 and 281
Backoff(factor, attempt) == factor * Pow2(attempt)

\* a failed attempt that the loop retries: sleep unless it was the last
Retry(kind, msg) ==
    IF req.attempt < req.max_retries - 1
    THEN [req EXCEPT !.pc = "sleep", !.sent = Outcome(kind),
                     !.last_error = Some(msg), !.log = "warning",
                     !.delays =
                         Append(@, Backoff(req.backoff_factor, req.attempt))]
    ELSE [req EXCEPT !.pc = "loop", !.sent = Outcome(kind),
                     !.last_error = Some(msg), !.log = "warning",
                     !.attempt = @ + 1]

\* the response has a non-success status
RespStatus ==
    /\ req.pc = "get"
    /\ \E msg \in Msgs : req' = Retry("status", msg)
    /\ UNCHANGED <<cacheVars, acqVars, sanVars, normVars, extVars>>

\* httpx.RequestError
RespRequestError ==
    /\ req.pc = "get"
    /\ \E msg \in Msgs : req' = Retry("transport", msg)
    /\ UNCHANGED <<cacheVars, acqVars, sanVars, normVars, extVars>>

\* the response has a success status: its JSON or its bytes are returned
RespSuccess ==
    /\ req.pc = "get"
    /\ \E b \in Bodies :
         req' = [req EXCEPT !.pc = "returned", !.sent = Outcome("success"),
                            !.result = Some(b), !.log = "debug"]
    /\ UNCHANGED <<cacheVars, acqVars, sanVars, normVars, extVars>>

\* mutant: a body that does not parse is handled like a transport failure
RespValueError_retried ==
    /\ req.pc = "get"
    /\ req' = Retry("decode", "Invalid JSON response")
    /\ UNCHANGED <<cacheVars, acqVars, sanVars, normVars, extVars>>

\* response.json() raises ValueError
RespValueError ==
    /\ req.pc = "get"
    /\ req' = [req EXCEPT !.pc = "returned", !.sent = Outcome("decode"),
                          !.last_error = Some("Invalid JSON response"),
                          !.result = None, !.log = "error"]
    /\ UNCHANGED <<cacheVars, acqVars, sanVars, normVars, extVars>>

\* any other exception
RespException ==
    /\ req.pc = "get"
    /\ req' = [req EXCEPT !.pc = "returned", !.sent = Outcome("unexpected"),
                          !.last_error = Some("Unexpected error"),
                          !.result = None, !.log = "error"]
    /\ UNCHANGED <<cacheVars, acqVars, sanVars, normVars, extVars>>

\* asyncio.sleep is over: the loop goes to its next attempt
ReqWake ==
    /\ req.pc = "sleep"
    /\ req' = [req EXCEPT !.pc = "loop", !.attempt = @ + 1]
    /\ UNCHANGED <<cacheVars, acqVars, sanVars, normVars, extVars>>

\* mutant: an empty result is taken for no response
make_api_request_falsy(response) ==
    IF response = None \/ response = Some(EmptyDictBody) THEN None
    ELSE response

\* ApiData._make_api_request: what the caller of the API gets
make_api_request(response) ==
    IF response = None THEN None ELSE response

InitReq ==
    /\ CacheStart
    /\ ExtStart
    /\ AcqStart
    /\ ReqStart
    /\ SanStart
    /\ NormStart
    /\ track = [cdnurl |-> TRUE, key |-> TRUE]

\* the steps inside one call
ReqSteps ==
    \/ ReqSend
    \/ ReqExhausted
    \/ RespStatus
    \/ RespRequestError
    \/ RespSuccess
    \/ RespValueError
    \/ RespException
    \/ ReqWake

NextReq ==
    \/ ReqCall
    \/ ReqSteps

SpecReq == InitReq /\ [][NextReq]_vars

\* the event loop resumes a coroutine that is ready, a sleep ends, and the
\* session's timeout ends every get with a response or a RequestError
SpecReqFair == SpecReq /\ WF_vars(ReqSteps)

\* every attempt made so far failed at transport level
AllTransport == \A i \in 1 .. Len(req.sent) : req.sent[i] = "transport"

(***************************************************************************)
(* C9  Retry bound: a request never makes more than max_retries attempts,  *)
(* a request whose every attempt failed at transport level has made        *)
(* exactly max_retries attempts when it returns, and every request that    *)
(* has begun returns.                                                      *)
(***************************************************************************)
RetryBound ==
    /\ [](Len(req.sent) <= req.max_retries)
    /\ [](req.pc = "returned" /\ req.url # "" /\ AllTransport
            => Len(req.sent) = req.max_retries)
    /\ (InRequest ~> req.pc = "returned")

\* a request with the largest max_retries has returned after every attempt
\* failed at transport level
RetryBoundWitness ==
    /\ req.pc = "returned"
    /\ req.max_retries = MaxRetries
    /\ Len(req.sent) = MaxRetries
    /\ AllTransport
    /\ req.log = "All retries failed"

\* what a transport failure with message msg would be reported as
TransportError(msg) == [type |-> "TransportError", body |-> msg]

(***************************************************************************)
(* C10  When all attempts of a request have failed at transport level, the *)
(* caller gets a TransportError carrying the last observed message.        *)
(***************************************************************************)
TransportErrorReported ==
    (/\ req.pc = "returned"
     /\ req.sent # <<>>
     /\ AllTransport)
    => /\ make_api_request(req.result) # None
       /\ make_api_request(req.result) = Some(TransportError(req.last_error[1]))

\* every attempt made so far failed, at transport level or with a
\* non-success status
AllFailed ==
    \A i \in 1 .. Len(req.sent) : req.sent[i] \in {"transport", "status"}

\* a request made with the default max_retries has returned after it kept
\* failing
DefaultExhausted ==
    /\ req.pc = "returned"
    /\ req.url # ""
    /\ req.max_retries = MAX_RETRIES
    /\ AllFailed

(***************************************************************************)
(* C11  With the default max_retries, a request that keeps failing, at     *)
(* transport level or with a non-success status, makes 3 attempts in       *)
(* total: the first and 2 retries.                                         *)
(***************************************************************************)
DefaultThreeAttempts == DefaultExhausted => Len(req.sent) = 3

(***************************************************************************)
(* C12  Backoff: the first delay is backoff_factor, every later delay is   *)
(* twice the one before it and longer than it, whatever the kind of the    *)
(* failed attempts; a delay is taken only between two attempts, so a       *)
(* request that has returned slept once less than it made attempts.        *)
(***************************************************************************)
BackoffDoubles ==
    /\ req.delays # <<>> => req.delays[1] = req.backoff_factor
    /\ \A k \in 1 .. (Len(req.delays) - 1) :
          /\ req.delays[k + 1] = 2 * req.delays[k]
          /\ req.delays[k + 1] > req.delays[k]
    /\ req.pc = "sleep" => Len(req.delays) = Len(req.sent)
    /\ req.pc \in {"get", "returned"} /\ req.sent # <<>> =>
          Len(req.delays) = Len(req.sent) - 1

\* four attempts failed, in both ways, with three delays between them and
\* none after the last
BackoffDoublesWitness ==
    /\ req.pc = "returned"
    /\ req.backoff_factor = BACKOFF_FACTOR + 1
    /\ req.sent = <<"transport", "status", "status", "transport">>
    /\ Len(req.delays) = 3
    /\ req.log = "All retries failed"

(***************************************************************************)
(* Claims about single cache operations.  Each is stated for every         *)
(* reachable cache and every argument: the operation is applied to the     *)
(* cache as it stands and its result is compared with the cache before.    *)
(***************************************************************************)
LoopArgs == 0 .. 3

(***************************************************************************)
(* C13  Loop semantics: set_loop_count(chat, n) on a chat with a non-empty *)
(* queue returns True and get_loop_count(chat) then returns n; on a chat   *)
(* with an empty queue or an untracked chat it returns False, leaves the   *)
(* whole cache as it was, and get_loop_count returns 0.                    *)
(***************************************************************************)
SetLoopSemantics ==
    \A c \in Chats, n \in LoopArgs :
        LET r == set_loop_count(chat_cache, c, n)
        IN  IF c \in DOMAIN chat_cache /\ chat_cache[c].queue # <<>>
            THEN r.ret /\ get_loop_count(r.cache, c) = n
            ELSE /\ ~r.ret
                 /\ r.cache = chat_cache
                 /\ get_loop_count(r.cache, c) = 0

\* set_loop_count has set the loop count of the head of a queue of two
\* entries that were both submitted with another loop count
SetLoopSemanticsWitness ==
    \E c \in Chats :
        /\ run[c].clean
        /\ run[c].popped = <<>>
        /\ Len(get_queue(chat_cache, c)) = 2
        /\ \E n \in LoopValues :
              /\ get_loop_count(chat_cache, c) = n
              /\ get_queue(chat_cache, c)[2].loop # n

(***************************************************************************)
(* C14  remove_track(chat, i) with 0 <= i < length removes the entry at    *)
(* position i, returns True, keeps the other entries in their order and    *)
(* changes nothing else; with any other i, an empty queue or an untracked  *)
(* chat it returns False and leaves the cache as it was.                   *)
(***************************************************************************)
RemoveAtSemantics ==
    \A c \in Chats, i \in Indexes :
        LET q == get_queue(chat_cache, c)
            r == remove_track(chat_cache, c, i)
        IN  IF 0 <= i /\ i < Len(q)
            THEN /\ r.ret
                 /\ get_queue(r.cache, c) =
                        SubSeq(q, 1, i) \o SubSeq(q, i + 2, Len(q))
                 /\ get_queue_length(r.cache, c) = Len(q) - 1
                 /\ DOMAIN r.cache = DOMAIN chat_cache
                 /\ \A x \in DOMAIN chat_cache :
                        /\ r.cache[x].is_active = chat_cache[x].is_active
                        /\ x # c => r.cache[x] = chat_cache[x]
            ELSE ~r.ret /\ r.cache = chat_cache

\* of three entries enqueued, remove_track has removed the middle one
RemoveAtSemanticsWitness ==
    \E c \in Chats :
        /\ ~run[c].clean
        /\ run[c].popped = <<>>
        /\ Len(run[c].enq) = 3
        /\ run[c].enq[1] # run[c].enq[3]
        /\ get_queue(chat_cache, c) = <<run[c].enq[1], run[c].enq[3]>>

(***************************************************************************)
(* C15  add_song(chat, song) appends exactly one entry at the tail of the  *)
(* chat's queue, every earlier entry keeping its position; it returns the  *)
(* entry it stored, which is the submitted one with its text sanitized;    *)
(* when the chat was not tracked its state is created with is_active True. *)
(***************************************************************************)
EnqueueSemantics ==
    \A c \in Chats, song \in Songs :
        LET q == get_queue(chat_cache, c)
            cc == add_song(chat_cache, c, song)
            ret == add_song_return(chat_cache, c, song)
        IN  /\ get_queue_length(cc, c) = Len(q) + 1
            /\ SubSeq(get_queue(cc, c), 1, Len(q)) = q
            /\ get_queue(cc, c)[Len(q) + 1] = ret
            /\ ret.track_id = song.track_id
            /\ DOMAIN cc = DOMAIN chat_cache \cup {c}
            /\ c \notin DOMAIN chat_cache => is_active(cc, c)

\* three entries were enqueued on an untracked chat: they are the queue, in
\* the order of the calls, and the chat is active
EnqueueSemanticsWitness ==
    \E c \in Chats :
        /\ run[c].clean
        /\ run[c].popped = <<>>
        /\ Len(run[c].enq) = 3
        /\ run[c].enq[1] # run[c].enq[3]
        /\ get_queue(chat_cache, c) = run[c].enq
        /\ is_active(chat_cache, c)

(***************************************************************************)
(* C16  In every reachable state get_playing_track is the first element of *)
(* get_queue (None when it is empty), get_upcoming_track is the second     *)
(* (None when there are fewer than two), remove_current_song returns what  *)
(* get_playing_track returned just before, and the head after it is what   *)
(* get_upcoming_track returned just before.                                *)
(***************************************************************************)
HeadNextPop ==
    \A c \in Chats :
        LET q == get_queue(chat_cache, c)
            head == get_playing_track(chat_cache, c)
            next == get_upcoming_track(chat_cache, c)
            r == remove_current_song(chat_cache, c)
        IN  /\ head = IF q = <<>> THEN None ELSE Some(q[1])
            /\ next = IF Len(q) < 2 THEN None ELSE Some(q[2])
            /\ r.ret = head
            /\ get_playing_track(r.cache, c) = next

\* one of three different neighbours was popped: two entries are left, the
\* head is not the entry behind it
HeadNextPopWitness ==
    \E c \in Chats :
        /\ run[c].clean
        /\ Len(run[c].enq) = 3
        /\ run[c].popped = <<run[c].enq[1]>>
        /\ get_queue(chat_cache, c) = <<run[c].enq[2], run[c].enq[3]>>
        /\ run[c].enq[1] # run[c].enq[2]
        /\ run[c].enq[2] # run[c].enq[3]

(***************************************************************************)
(* C17  clear_chat(chat) drops all state of the chat, whatever it was:     *)
(* afterwards is_active is False, the length is 0, head and next are None, *)
(* get_loop_count is 0 and the chat is not among the active chats; on an   *)
(* untracked chat it changes nothing; an add_song after it starts from an  *)
(* empty, active queue.                                                    *)
(***************************************************************************)
ClearSemantics ==
    \A c \in Chats :
        LET cc == clear_chat(chat_cache, c)
        IN  /\ ~is_active(cc, c)
            /\ get_queue_length(cc, c) = 0
            /\ get_queue(cc, c) = <<>>
            /\ get_playing_track(cc, c) = None
            /\ get_upcoming_track(cc, c) = None
            /\ get_loop_count(cc, c) = 0
            /\ c \notin Elems(get_active_chats(cc))
            /\ c \notin DOMAIN chat_cache => cc = chat_cache
            /\ \A song \in Songs :
                  /\ get_queue(add_song(cc, c, song), c) = <<sanitized_song(song)>>
                  /\ is_active(add_song(cc, c, song), c)

\* clear_chat works on an inactive chat with two entries and a loop count
\* set on its head, while the other chat is tracked
ClearSemanticsWitness ==
    \E c \in Chats :
        /\ c \in DOMAIN chat_cache
        /\ ~is_active(chat_cache, c)
        /\ get_queue_length(chat_cache, c) = 2
        /\ get_loop_count(chat_cache, c) \in LoopValues
        /\ DOMAIN clear_chat(chat_cache, c) = DOMAIN chat_cache \ {c}
        /\ DOMAIN clear_chat(chat_cache, c) # {}

\* P holds of every cache remove_current_song and remove_track on chat c
\* can make of the cache
AfterRemoval(c, P(_)) ==
    /\ P(remove_current_song(chat_cache, c).cache)
    /\ \A i \in Indexes : P(remove_track(chat_cache, c, i).cache)

\* P holds of every cache an operation on chat c other than clear_chat can
\* make of the cache
AfterOtherThanClear(c, P(_)) ==
    /\ AfterRemoval(c, P)
    /\ \A song \in Songs : P(add_song(chat_cache, c, song))
    /\ \A n \in LoopArgs : P(set_loop_count(chat_cache, c, n).cache)
    /\ \A b \in BOOLEAN : P(set_active(chat_cache, c, b))

(***************************************************************************)
(* C18  An empty queue is not an untracked chat and nothing expires: a     *)
(* tracked chat stays tracked, with its is_active flag and its place among *)
(* the active chats unchanged, through remove_current_song and             *)
(* remove_track, also when they drain the queue; every operation but       *)
(* clear_chat keeps every tracked chat tracked.                            *)
(***************************************************************************)
NoExpiry ==
    \A c \in Chats :
        /\ AfterOtherThanClear(c,
                LAMBDA cc : DOMAIN chat_cache \subseteq DOMAIN cc)
        /\ c \in DOMAIN chat_cache =>
              AfterRemoval(c, LAMBDA cc :
                  /\ c \in DOMAIN cc
                  /\ is_active(cc, c) = is_active(chat_cache, c)
                  /\ get_active_chats(cc) = get_active_chats(chat_cache))

\* remove_current_song has drained a queue of two: the chat is tracked and
\* active with an empty queue, which the untracked other chat is not
NoExpiryWitness ==
    \E c \in Chats :
        /\ Len(run[c].enq) = 2
        /\ run[c].popped = run[c].enq
        /\ c \in DOMAIN chat_cache
        /\ get_queue(chat_cache, c) = <<>>
        /\ is_active(chat_cache, c)
        /\ get_active_chats(chat_cache) = <<c>>
        /\ \E d \in Chats \ {c} :
              d \notin DOMAIN chat_cache /\ ~is_active(chat_cache, d)

(***************************************************************************)
(* C19  After set_active(chat, b), is_active(chat) is b and the queue of   *)
(* the chat is what it was, empty for a chat that was untracked; in every  *)
(* reachable state get_active_chats lists a chat exactly when is_active is *)
(* True for it, and lists no chat twice.                                   *)
(***************************************************************************)
ActiveSemantics ==
    /\ \A c \in Chats, b \in BOOLEAN :
          LET cc == set_active(chat_cache, c, b)
          IN  /\ is_active(cc, c) = b
              /\ c \in DOMAIN cc
              /\ get_queue(cc, c) = get_queue(chat_cache, c)
    /\ LET active == get_active_chats(chat_cache)
       IN  /\ \A c \in Chats : c \in Elems(active) <=> is_active(chat_cache, c)
           /\ Cardinality(Elems(active)) = Len(active)

\* set_active(chat, False) has acted on a chat that holds two entries, and
\* the other chat is the one active chat
ActiveSemanticsWitness ==
    \E c \in Chats, d \in Chats :
        /\ c \in DOMAIN chat_cache
        /\ ~is_active(chat_cache, c)
        /\ get_queue_length(chat_cache, c) = 2
        /\ get_active_chats(chat_cache) = <<d>>

\* what the cache holds for a chat: its state in a one-element tuple, the
\* empty tuple for an untracked chat
ChatState(cc, c) == IF c \in DOMAIN cc THEN <<cc[c]>> ELSE <<>>

(***************************************************************************)
(* C20  Chats are independent: whatever operation is run on chat a         *)
(* (add_song, remove_current_song, remove_track, set_loop_count,           *)
(* set_active, clear_chat), in whatever state the operations run so far    *)
(* on the chats have left the cache, every other chat b keeps its queue    *)
(* with its loop counts, its is_active flag and its being tracked or not.  *)
(***************************************************************************)
ChatsIndependent ==
    \A a \in Chats :
        LET Others(cc) ==
                \A b \in Chats \ {a} :
                    ChatState(cc, b) = ChatState(chat_cache, b)
        IN  /\ AfterOtherThanClear(a, Others)
            /\ Others(clear_chat(chat_cache, a))

\* operations on both chats have left one inactive with two entries and
\* the other active with one entry whose loop count was set
ChatsIndependentWitness ==
    \E a \in Chats, b \in Chats :
        /\ a # b
        /\ ~is_active(chat_cache, a)
        /\ get_queue_length(chat_cache, a) = 2
        /\ is_active(chat_cache, b)
        /\ get_queue_length(chat_cache, b) = 1
        /\ get_loop_count(chat_cache, b) \in LoopValues

-----------------------------------------------------------------------------
\* The sanitizers as pure functions: a text drawn from a bounded set is put
\* through one of them, once and again, or enqueued as every text field of a
\* track, raw or as the normalizer left it.

MaxText == 3

Alphabet == {"a", "&", "<", ">", "\t"}

\* a text of n letters
Pad(n) == [i \in 1 .. n |-> "a"]

\* texts at the length cap: an ampersand as the last character the cap
\* allows, and a text one character over the cap
LongTexts == {Pad(TextCap - 1) \o <<"&">>, Pad(TextCap + 1)}

Texts == UNION {[1 .. n -> Alphabet] : n \in 0 .. MaxText} \cup LongTexts

Sanitizers == {"cacher", "api", "callback"}

SanitizeBy(by, text) ==
    CASE by = "cacher" -> CacherSanitizeText(text)
      [] by = "api" -> ApiSanitizeText(text)
      [] by = "callback" -> CallbackSanitizeText(text)

\* a CachedTrack whose text fields are all the given text
SongOf(text) ==
    [Song2 EXCEPT !.track_id = "t3", !.name = text, !.url = text,
                  !.user = text, !.artist = Some(text),
                  !.thumbnail = Some(text)]

InitSan ==
    /\ CacheStart
    /\ ExtStart
    /\ AcqStart
    /\ ReqStart
    /\ NormStart
    /\ track = [cdnurl |-> TRUE, key |-> TRUE]
    /\ san \in {[NoText EXCEPT !.text = t] : t \in Texts}

\* the text is passed to a sanitizer
SanApply(by) ==
    /\ san.once = None
    /\ san.stored = "none"
    /\ san' = [san EXCEPT !.by = by, !.once = Some(SanitizeBy(by, san.text))]
    /\ UNCHANGED <<cacheVars, acqVars, reqVars, normVars, extVars>>

\* the sanitizer's result is passed to the same sanitizer
SanAgain ==
    /\ san.once # None
    /\ san.twice = None
    /\ san.stored = "none"
    /\ san' = [san EXCEPT !.twice = Some(SanitizeBy(san.by, san.once[1]))]
    /\ UNCHANGED <<cacheVars, acqVars, reqVars, normVars, extVars>>

\* add_song of a track that carries the text as submitted
SanEnqueueRaw(c) ==
    /\ san.once = None
    /\ san.stored \in {"none", "raw"}
    /\ c \notin DOMAIN chat_cache
    /\ chat_cache' = add_song(chat_cache, c, SongOf(san.text))
    /\ san' = [san EXCEPT !.stored = "raw"]
    /\ UNCHANGED <<run, ref, pend, calls, raced, acqVars, reqVars, normVars, extVars>>

\* add_song of a track whose text fields went through the normalizer
SanEnqueueNormalized(c) ==
    /\ san.by = "api"
    /\ san.twice = None
    /\ san.stored \in {"none", "normalized"}
    /\ c \notin DOMAIN chat_cache
    /\ chat_cache' = add_song(chat_cache, c, SongOf(san.once[1]))
    /\ san' = [san EXCEPT !.stored = "normalized"]
    /\ UNCHANGED <<run, ref, pend, calls, raced, acqVars, reqVars, normVars, extVars>>

NextSan ==
    \/ \E by \in Sanitizers : SanApply(by)
    \/ SanAgain
    \/ \E c \in Chats : SanEnqueueRaw(c)
    \/ \E c \in Chats : SanEnqueueNormalized(c)

SpecSanitize == InitSan /\ [][NextSan]_vars

Entities ==
    {<<"a", "m", "p", ";">>, <<"l", "t", ";">>, <<"g", "t", ";">>,
     <<"q", "u", "o", "t", ";">>, <<"#", "x", "2", "7", ";">>}

\* the character at i opens a character reference
EntityAt(t, i) ==
    \E e \in Entities :
        /\ i + Len(e) <= Len(t)
        /\ SubSeq(t, i + 1, i + Len(e)) = e

\* no raw < or >, no unescaped &, no control character, within the cap
CleanText(t) ==
    /\ Len(t) <= TextCap
    /\ \A i \in 1 .. Len(t) :
        /\ t[i] \notin {"<", ">"} \cup ControlChars
        /\ t[i] = "&" => EntityAt(t, i)

CleanEntry(e) ==
    /\ CleanText(e.name)
    /\ CleanText(e.url)
    /\ CleanText(e.user)
    /\ CleanText(e.artist)

\* C21: every entry stored in any chat's queue has a sanitized name, artist,
\* url and requested_by (no raw < or >, no unescaped &, no control character,
\* at most 4096 characters), whatever entry was passed to enqueue.
TrustBoundary ==
    \A c \in DOMAIN chat_cache :
        \A k \in 1 .. Len(chat_cache[c].queue) : CleanEntry(chat_cache[c].queue[k])

\* C22: sanitizing a sanitized text changes nothing, for the cache's sanitizer
\* and for the normalizer's alike, and a track whose fields the normalizer
\* sanitized is stored by enqueue unchanged.
SanitizeIdempotent ==
    /\ san.twice # None => san.twice = san.once
    /\ san.stored = "normalized" =>
        \A c \in DOMAIN chat_cache :
            chat_cache[c].queue[1].name = san.once[1]

-----------------------------------------------------------------------------
\* The steps of one acquisition, under SpecAcqSeq.

DecryptPcs == {"dec_open", "dec_copy"}
RepairPcs == {"rebuild", "rebuild_write"}
RemuxPcs == {"ffmpeg", "ffmpeg_doomed"}
Results == {ResPath, ErrMissing, ErrDownload, ErrProcessing}

\* task t goes from one of the places in from to one of the places in to
Goes(t, from, to) == pc[t] \in from /\ pc'[t] \in to /\ pc'[t] # pc[t]

\* C23: an acquisition goes CheckExisting, Download, then for a track with a
\* key Decrypt, RepairContainer and Remux, then Cleanup, then Done; a step
\* starts only after the step before it completed successfully, a failed
\* download of the encrypted container ends the call with no decrypt, repair
\* or remux started, and a path is returned only after Cleanup (or because
\* CheckExisting found the output).
StepOrder ==
    [][\A t \in Tasks :
        /\ Goes(t, {"idle"}, {"dl_wait"}) => ~Exists(fs, OutputFile)
        /\ pc'[t] \in DecryptPcs /\ pc[t] \notin DecryptPcs =>
               /\ track.key
               /\ pc[t] \in {"dl_wait", "dl_write"}
               /\ Exists(fs', EncryptedFile)
        /\ pc'[t] \in RepairPcs /\ pc[t] \notin RepairPcs => pc[t] = "dec_copy"
        /\ pc'[t] \in RemuxPcs /\ pc[t] \notin RemuxPcs =>
               /\ pc[t] = "fix"
               /\ "repair" \in work[t]
        /\ pc'[t] = "cleanup_ok" /\ pc[t] # "cleanup_ok" =>
               \/ pc[t] = "ffmpeg"
               \/ ~track.key /\ pc[t] \in {"dl_wait", "dl_write"}
        /\ res'[t] = ErrDownload =>
               work'[t] \cap {"decrypt", "repair", "remux"} = {}
        /\ res'[t] = ResPath /\ res[t] # ResPath =>
               \/ pc[t] = "cleanup_ok"
               \/ pc[t] = "idle" /\ Exists(fs, OutputFile)
      ]_vars

\* C24: a call for a track with no CDN location, made when no output file
\* exists, ends at once with the missing-source error: no request is sent, no
\* download, decrypt, repair or remux is started, and no file is created.
MissingSourceFailsAtOnce ==
    [][\A t \in Tasks :
        (/\ pc[t] = "idle"
         /\ pc'[t] # "idle"
         /\ ~track.cdnurl
         /\ ~Exists(fs, OutputFile))
        => /\ pc'[t] = "done"
           /\ res'[t] = ErrMissing
           /\ work'[t] = {}
           /\ fs' = fs
      ]_vars

\* a call for a track without a CDN location has returned
MissingSourceWitness ==
    \E t \in Tasks :
        /\ pc[t] = "done"
        /\ ~track.cdnurl
        /\ cold[t]
        /\ res[t] = ErrMissing

\* C25: for a track without a key the download goes straight to the output
\* path and no decrypt, repair or remux is ever started; the call returns the
\* output path exactly when the download succeeded, and an error otherwise.
DirectDownload ==
    \A t \in Tasks :
        ~track.key =>
            /\ pc[t] \notin DecryptPcs \cup RepairPcs \cup RemuxPcs \cup {"fix"}
            /\ work[t] \cap {"decrypt", "repair", "remux"} = {}
            /\ \A f \in {EncryptedFile, EncryptedPart, DecryptedFile} :
                   ~Exists(fs, f)
            /\ pc[t] = "done" /\ "request" \in work[t] =>
                   \/ res[t] = ResPath /\ Complete(fs[OutputFile])
                   \/ res[t] = ErrDownload /\ ~Exists(fs, OutputFile)

\* both outcomes of a direct download: here the body arrived and the path
\* was returned
DirectDownloadWitness ==
    \E t \in Tasks :
        /\ ~track.key
        /\ pc[t] = "done"
        /\ "fetch" \in work[t]
        /\ res[t] = ResPath
        /\ Complete(fs[OutputFile])

\* C26: a call never ends with an exception: the result of a call that has
\* ended is the path or one of the error values, whichever step failed, a
\* removal in _cleanup included.
NeverRaises ==
    \A t \in Tasks :
        /\ pc[t] = "done" => res[t] \in Results
        /\ pc[t] # "done" => res[t] = NoResult

\* a step failed and then a removal in _cleanup failed as well
NeverRaisesWitness ==
    \E t \in Tasks :
        /\ pc[t] = "done"
        /\ res[t] = ErrProcessing
        /\ rmfail[t] # {}

\* C27: when the destination of download_file exists already (overwrite is
\* never requested), no request is sent for it, the download reports success
\* whatever the server answers, and the existing file stays as it is.
ExistingShortCircuit ==
    [][\A t \in Tasks :
        /\ Goes(t, {"idle"}, {"dl_wait"}) =>
               ~Exists(fs, DownloadTarget(track))
        /\ (/\ pc[t] = "dl_wait"
            /\ pc'[t] \notin {"dl_wait", "idle"}
            /\ Exists(fs, DownloadTarget(track)))
           => /\ pc'[t] = AfterDownload
              /\ fs' = fs
      ]_vars

-----------------------------------------------------------------------------
\* The normalizer as a pure function: ApiData._parse_tracks_response and
\* ApiData._parse_duration applied to payloads drawn from a bounded set.

MaxResults == 2

\* an exception raised while a value is computed
Raise == [Null EXCEPT !.t = "raise"]

\* Python's truth test: None, 0, "", [] and {} are false
Falsy(x) ==
    \/ x.t = "NoneType"
    \/ x.t = "int" /\ x.n = 0
    \/ x.t = "str" /\ Len(x.s) = 0
    \/ x.t = "list" /\ Len(x.l) = 0
    \/ x.t = "dict" /\ x.d = {}

\* dict.get(key, default)
Get(d, key, default) ==
    IF \E p \in d : p[1] = key
    THEN (CHOOSE p \in d : p[1] = key)[2]
    ELSE default

\* ApiData._sanitize_text on a payload value: a false value is returned as it
\* is, a string is escaped, anything else has no replace() and raises
sanitize_text(x) ==
    IF Falsy(x) THEN x
    ELSE IF x.t = "str" THEN StrV(ApiSanitizeText(x.s))
    ELSE Raise

\* ", ".join(x): a list of strings is joined, None raises TypeError
Join(x) ==
    IF x.t = "list" /\ \A i \in 1 .. Len(x.l) : x.l[i].t = "str"
    THEN StrV(Concat([i \in 1 .. 2 * Len(x.l) - 1 |->
                         IF i % 2 = 1 THEN x.l[(i + 1) \div 2].s
                         ELSE <<",", " ">>]))
    ELSE Raise

DigitChars == <<"0", "1", "2", "3", "4", "5", "6", "7", "8", "9">>

\* int(s) of a string of decimal digits; any other string raises ValueError
RECURSIVE ParseInt(_)
ParseInt(s) ==
    IF Len(s) = 0 \/ \E i \in 1 .. Len(s) : \A d \in 1 .. 10 : s[i] # DigitChars[d]
    THEN None
    ELSE LET units == CHOOSE d \in 0 .. 9 : DigitChars[d + 1] = s[Len(s)]
         IN  IF Len(s) = 1 THEN Some(units)
             ELSE Some(10 * ParseInt(SubSeq(s, 1, Len(s) - 1))[1] + units)

\* s.split(sep)
RECURSIVE Split(_, _)
Split(s, sep) ==
    IF \A i \in 1 .. Len(s) : s[i] # sep
    THEN <<s>>
    ELSE LET i == CHOOSE j \in 1 .. Len(s) :
                      s[j] = sep /\ \A k \in 1 .. j - 1 : s[k] # sep
         IN  <<SubSeq(s, 1, i - 1)>> \o Split(SubSeq(s, i + 1, Len(s)), sep)

\* ApiData._parse_duration
parse_duration(x) ==
    IF x.t = "int" THEN x
    ELSE IF x.t = "str"
    THEN LET parts == Split(x.s, ":")
         IN  IF /\ Len(parts) = 2
                /\ ParseInt(parts[1]) # None
                /\ ParseInt(parts[2]) # None
             THEN IntV(ParseInt(parts[1])[1] * 60 + ParseInt(parts[2])[1])
             ELSE IntV(0)
    ELSE IntV(0)

UnknownTrack ==
    <<"U", "n", "k", "n", "o", "w", "n", " ", "T", "r", "a", "c", "k">>

\* the MusicTrack dataclass: a record of the values it is given
MusicTrack(tr) == tr

\* the MusicTrack of the single-object branch, lines 282-291
SingleTrack(d) == MusicTrack(
    [url |-> sanitize_text(Get(d, "spotify_url", StrV(<<>>))),
     name |-> sanitize_text(Get(d, "name", StrV(UnknownTrack))),
     artist |-> sanitize_text(
         Join(Get(d, "artists", ListV(<<StrV(UnknownArtist)>>)))),
     id |-> Get(d, "id", StrV(<<>>)),
     year |-> Get(d, "year", IntV(0)),
     cover |-> sanitize_text(Get(d, "album_art", StrV(<<>>))),
     duration |-> parse_duration(Get(d, "duration", IntV(0))),
     platform |-> "spotify"])

\* the MusicTrack of the results-list branch, lines 296-305
ListTrack(d) == MusicTrack(
    [url |-> sanitize_text(Get(d, "spotify_url", StrV(<<>>))),
     name |-> sanitize_text(Get(d, "name", StrV(UnknownTrack))),
     artist |-> sanitize_text(Get(d, "artist", StrV(UnknownArtist))),
     id |-> Get(d, "id", StrV(<<>>)),
     year |-> Get(d, "year", IntV(0)),
     cover |-> sanitize_text(Get(d, "cover", StrV(<<>>))),
     duration |-> Get(d, "duration", IntV(0)),
     platform |-> "spotify"])

\* building the track raised
Raises(tr) == Raise \in {tr.url, tr.name, tr.artist, tr.cover}

\* mutant: the single-object branch is never taken
has_id_never(d) == FALSE

\* line 279: "id" in response_data
has_id(d) == \E p \in d : p[1] = "id"

\* line 307: isinstance(track_data, dict)
is_dict(e) == e.t = "dict"

\* the elements a for loop over x visits; None and numbers are not iterable
Iter(x) ==
    IF x.t = "list" THEN Some(x.l)
    ELSE IF x.t = "str" THEN Some([i \in 1 .. Len(x.s) |-> StrV(<<x.s[i]>>)])
    ELSE None

\* ApiData._parse_tracks_response
parse_tracks_response(r) ==
    IF Falsy(r) THEN Error(404, "Invalid API response format")
    ELSE IF r.t # "dict" THEN Error(500, "Failed to process track data")
    ELSE IF has_id(r.d)
    THEN IF Raises(SingleTrack(r.d))
         THEN Error(500, "Failed to process track data")
         ELSE PlatformTracks(<<SingleTrack(r.d)>>)
    ELSE IF \E p \in r.d : p[1] = "results"
    THEN LET elems == Iter(Get(r.d, "results", Null))
             kept == SelectSeq(elems[1], is_dict)
             \* track_data.get raises on a value that is not a dict
             tracks == [i \in 1 .. Len(kept) |->
                           IF kept[i].t = "dict" THEN ListTrack(kept[i].d)
                           ELSE [ListTrack({}) EXCEPT !.name = Raise]]
         IN  IF elems = None \/ \E i \in 1 .. Len(kept) : Raises(tracks[i])
             THEN Error(500, "Failed to process track data")
             ELSE IF Len(tracks) = 0
             THEN Error(404, "No valid tracks found")
             ELSE PlatformTracks(tracks)
    ELSE Error(404, "No valid tracks found in response")

\* x or y: an Error and a PlatformTracks object are both true
Or(x, y) == IF x.t \in {"Error", "PlatformTracks"} THEN x ELSE y

\* get_info line 141 and search line 159
tracks_or_error(r) ==
    Or(parse_tracks_response(r), Error(404, "No track information found"))

\* the payloads: each field absent, well-formed, or of another type
NameFields ==
    {{}, {<<"name", StrV(<<"a", "<">>)>>}, {<<"name", IntV(5)>>}}

DurationArgs ==
    {IntV(200), IntV(0),
     StrV(<<"3", ":", "4", "5">>), StrV(<<"b", "a", "d">>),
     StrV(<<"1", ":", "2", ":", "3">>), StrV(<<"7">>), Null}

DurationFields ==
    {{}} \cup {{<<"duration", x>>} : x \in DurationArgs \ {IntV(0), Null, StrV(<<"7">>)}}

ArtistsFields ==
    {{}, {<<"artists", ListV(<<StrV(<<"x">>), StrV(<<"y">>)>>)>>},
     {<<"artists", Null>>}}

Singles ==
    {DictV(({<<"id", StrV(<<"i">>)>>} \cup n \cup d \cup a)) :
        n \in NameFields, d \in DurationFields, a \in ArtistsFields}

Elements ==
    {DictV((n \cup d)) : n \in NameFields, d \in DurationFields}
    \cup {StrV(<<"x">>), Null}

ResultLists ==
    {DictV(({<<"results", ListV(l)>>})) :
        l \in UNION {[1 .. n -> Elements] : n \in 0 .. MaxResults}}

Responses ==
    Singles \cup ResultLists
    \cup {Null, DictV(({})), BytesV,
          DictV(({<<"results", IntV(1)>>})),
          DictV(({<<"error", StrV(<<"e">>)>>})),
          DictV(({<<"name", StrV(<<"a">>)>>, <<"duration", IntV(200)>>}))}

InitNorm ==
    /\ CacheStart
    /\ ExtStart
    /\ AcqStart
    /\ ReqStart
    /\ SanStart
    /\ track = [cdnurl |-> TRUE, key |-> TRUE]
    /\ norm \in {[NoResponse EXCEPT !.call = "_parse_tracks_response",
                                    !.arg = r] : r \in Responses}
           \cup {[NoResponse EXCEPT !.call = "_parse_duration",
                                    !.arg = x] : x \in DurationArgs}

\* get_info or search hands the response to _parse_tracks_response
ParseTracks ==
    /\ norm.call = "_parse_tracks_response"
    /\ ~norm.done
    /\ norm' = [norm EXCEPT !.out = tracks_or_error(norm.arg), !.done = TRUE]
    /\ UNCHANGED <<cacheVars, acqVars, reqVars, sanVars, extVars>>

\* _parse_duration is called on a duration value
ParseDuration ==
    /\ norm.call = "_parse_duration"
    /\ ~norm.done
    /\ norm' = [norm EXCEPT !.dur = parse_duration(norm.arg), !.done = TRUE]
    /\ UNCHANGED <<cacheVars, acqVars, reqVars, sanVars, extVars>>

NextNorm == ParseTracks \/ ParseDuration

SpecNorm == InitNorm /\ [][NextNorm]_vars

HasKey(r, key) == r.t = "dict" /\ \E p \in r.d : p[1] = key

\* _parse_tracks_response has returned for a response of the given shape
Parsed(key) ==
    /\ norm.done
    /\ norm.call = "_parse_tracks_response"
    /\ HasKey(norm.arg, key)

MinSec == StrV(<<"3", ":", "4", "5">>)

\* y is the duration the normalizer is to give for the payload value x
Seconds(x, y) ==
    /\ y.t = "int"
    /\ y.n >= 0
    /\ x.t = "int" => y = x
    /\ x = MinSec => y.n = 3 * 60 + 45
    /\ x.t = "str" /\ x # MinSec => y.n = 0

\* C28: every track the normalizer returns, from the single-object shape and
\* from the results list alike, has a duration that is a non-negative
\* integer: an integer is kept, "MM:SS" becomes MM*60+SS, and a string that
\* is not two integers around a colon becomes 0, without an exception.
DurationNormalized ==
    /\ norm.done /\ norm.call = "_parse_duration" => Seconds(norm.arg, norm.dur)
    /\ Parsed("id") /\ norm.out.t = "PlatformTracks" =>
           Seconds(Get(norm.arg.d, "duration", IntV(0)),
                   norm.out.tracks[1].duration)
    /\ Parsed("results") /\ ~HasKey(norm.arg, "id")
         /\ norm.out.t = "PlatformTracks" =>
           LET kept == SelectSeq(Get(norm.arg.d, "results", Null).l, is_dict)
           IN  \A k \in 1 .. Len(norm.out.tracks) :
                   Seconds(Get(kept[k].d, "duration", IntV(0)),
                           norm.out.tracks[k].duration)

\* an element of a results list is an object whose fields have their types
WellFormed(e) ==
    /\ e.t = "dict"
    /\ Get(e.d, "name", StrV(<<>>)).t = "str"
    /\ Get(e.d, "duration", IntV(0)).t \in {"int", "str"}

\* C29: for a response with a results list the normalizer returns one track
\* for each well-formed element, in the order of the list, and skips the
\* malformed ones (not an object, or a field of the wrong type); when no
\* element is well-formed the result is the not-found one, never a failure.
SkipMalformed ==
    Parsed("results") /\ ~HasKey(norm.arg, "id")
      /\ Get(norm.arg.d, "results", Null).t = "list" =>
        LET good == SelectSeq(Get(norm.arg.d, "results", Null).l, WellFormed)
        IN  IF Len(good) = 0
            THEN norm.out.t = "Error" /\ norm.out.code = 404
            ELSE /\ norm.out.t = "PlatformTracks"
                 /\ Len(norm.out.tracks) = Len(good)
                 /\ \A k \in 1 .. Len(good) :
                        norm.out.tracks[k].name =
                            sanitize_text(Get(good[k].d, "name",
                                              StrV(UnknownTrack)))

\* the response is an object with neither key and the result is the
\* not-found one
NeitherKeyNotFound ==
    (/\ norm.done
     /\ norm.call = "_parse_tracks_response"
     /\ norm.arg.t = "dict"
     /\ ~HasKey(norm.arg, "id")
     /\ ~HasKey(norm.arg, "results"))
    => norm.out.t = "Error" /\ norm.out.code = 404

OneTrack == norm.out.t = "PlatformTracks" /\ Len(norm.out.tracks) = 1

\* C30 as stated: a response object with neither an id nor a results key
\* gives the not-found result, not a failure, and a response with an id key
\* gives exactly one track.
ShapeDispatch ==
    /\ NeitherKeyNotFound
    /\ Parsed("id") => OneTrack

\* the text fields of a single-object response have their types
TextFieldsOk(d) ==
    /\ Get(d, "name", StrV(<<>>)).t = "str"
    /\ Get(d, "spotify_url", StrV(<<>>)).t = "str"
    /\ Get(d, "album_art", StrV(<<>>)).t = "str"
    /\ LET a == Get(d, "artists", ListV(<<>>))
       IN  a.t = "list" /\ \A i \in 1 .. Len(a.l) : a.l[i].t = "str"

\* C30 amended: a response object with neither key gives the not-found
\* result; a response with an id key gives exactly one track when its text
\* fields are strings and its artists a list of strings, and otherwise one
\* track or the processing error, never several tracks and never not-found.
ShapeDispatchWellFormed ==
    /\ NeitherKeyNotFound
    /\ Parsed("id") /\ TextFieldsOk(norm.arg.d) => OneTrack
    /\ Parsed("id") =>
           \/ OneTrack
           \/ norm.out.t = "Error" /\ norm.out.code = 500

\* a single-object response with a name, a duration and artists gave one
\* track
ShapeDispatchWitness ==
    /\ Parsed("id")
    /\ HasKey(norm.arg, "name")
    /\ HasKey(norm.arg, "artists")
    /\ TextFieldsOk(norm.arg.d)
    /\ OneTrack
    /\ norm.out.tracks[1].duration = IntV(225)

-----------------------------------------------------------------------------
\* The end of a request, under SpecReq.

\* the outcome of the attempt made last
LastOutcome == req.sent[Len(req.sent)]

\* C32: a response whose body does not parse is not retried: the request
\* ends with that attempt and returns nothing, whatever number of attempts
\* remain, while an attempt that failed with a non-success status or at
\* transport level ends the request only when no attempt remains.
DecodeNotRetried ==
    /\ \A i \in 1 .. Len(req.sent) :
           req.sent[i] = "decode" =>
               /\ i = Len(req.sent)
               /\ req.pc = "returned"
               /\ req.result = None
    /\ \A i \in 1 .. Len(req.sent) - 1 : req.sent[i] \in {"status", "transport"}
    /\ (/\ req.pc = "returned"
        /\ req.sent # <<>>
        /\ LastOutcome \in {"status", "transport"})
       => Len(req.sent) = req.max_retries

\* the second of four attempts got a body that does not parse, after a
\* first that was retried
DecodeNotRetriedWitness ==
    /\ req.pc = "returned"
    /\ req.max_retries = MaxRetries
    /\ req.sent = <<"status", "decode">>
    /\ req.result = None

\* C35: a request stops at its first success: when attempt k is the first
\* with a success status, k attempts are made, the caller gets the parsed
\* result of attempt k, also when it is empty, and no delay follows it.
SuccessStops ==
    \A i \in 1 .. Len(req.sent) :
        req.sent[i] = "success" =>
            /\ i = Len(req.sent)
            /\ req.pc = "returned"
            /\ req.result \in {Some(b) : b \in Bodies}
            /\ make_api_request(req.result) = req.result
            /\ Len(req.delays) = Len(req.sent) - 1

\* the third attempt was the first to succeed and its result was empty
SuccessStopsWitness ==
    /\ req.pc = "returned"
    /\ req.sent = <<"transport", "status", "success">>
    /\ Len(req.delays) = 2
    /\ make_api_request(req.result) = Some(EmptyDictBody)

-----------------------------------------------------------------------------
\* The failure paths of one acquisition, under SpecAcqSeq.

\* C33: when the download ends with a failure after an error while the body
\* was being written, the temporary .part file it created does not exist.
TempRemovedOnWriteError ==
    [][\A t \in Tasks :
        (/\ pc[t] = "dl_write"
         /\ pc'[t] = "done"
         /\ res'[t] = ErrDownload)
        => ~Exists(fs', temp_path(DownloadTarget(track)))
      ]_vars

\* C34: a failed header repair (decrypted file missing, or a write error)
\* ends the call with the processing error, and the remux tool is started
\* only on a file whose header was repaired.
RepairFailureStops ==
    \A t \in Tasks :
        /\ "remux" \in work[t] => "repair" \in work[t]
        /\ (/\ pc[t] = "done"
            /\ "decrypt" \in work[t]
            /\ "repair" \notin work[t])
           => res[t] = ErrProcessing

-----------------------------------------------------------------------------
\* Frame conditions of the cache operations: the behaviours of SpecCache,
\* with the read-only methods called in between.

\* get_playing_track, get_upcoming_track, get_queue_length, get_queue,
\* get_loop_count, is_active and get_active_chats: each reads through
\* chat_cache.get and assigns nothing
Query(c) ==
    /\ chat_cache' = Lookup(chat_cache, c)
    /\ UNCHANGED <<run, ref, pend, calls, raced, acqVars, reqVars, sanVars, normVars, extVars>>

NextCacheFrame ==
    \/ NextCache
    \/ \E c \in Chats : Query(c)

SpecCacheFrame == InitCache /\ [][NextCacheFrame]_vars

\* C37: the loop count belongs to the entry: set_loop_count changes the
\* loop count of the head entry and nothing else, and once the head is
\* removed (remove_current_song, or remove_track at 0) get_loop_count gives
\* the new head's own loop count, 0 when no entry is left.
LoopPerEntry ==
    \A c \in Chats, n \in LoopArgs :
        LET q == get_queue(chat_cache, c)
            r == set_loop_count(chat_cache, c, n)
            q1 == get_queue(r.cache, c)
            Own(cc) == get_loop_count(cc, c) =
                           IF Len(q) > 1 THEN q[2].loop ELSE 0
        IN  /\ Len(q1) = Len(q)
            /\ \A i \in 2 .. Len(q) : q1[i] = q[i]
            /\ q # <<>> => q1[1] = [q[1] EXCEPT !.loop = n]
            /\ DOMAIN r.cache = DOMAIN chat_cache
            /\ \A d \in DOMAIN chat_cache :
                   /\ r.cache[d].is_active = chat_cache[d].is_active
                   /\ d # c => r.cache[d] = chat_cache[d]
            /\ Own(remove_current_song(r.cache, c).cache)
            /\ Own(remove_track(r.cache, c, 0).cache)

\* the head whose loop count had been set was popped, and the entry that
\* followed it is the head with the loop count it was submitted with
LoopPerEntryWitness ==
    \E c \in Chats :
        /\ run[c].clean
        /\ Len(run[c].popped) = 1
        /\ run[c].popped[1].loop \in LoopValues
        /\ get_queue_length(chat_cache, c) = 1
        /\ get_loop_count(chat_cache, c) = Song2.loop

\* C38: the cache after a read-only call, and after remove_current_song,
\* remove_track or set_loop_count on an empty queue or an untracked chat, is
\* the cache before it: the same chats tracked, each in the same state; an
\* untracked chat stays untracked, not active and of length 0.
QueriesPure ==
    \A c \in Chats :
        LET cc == Lookup(chat_cache, c)
        IN  /\ cc = chat_cache
            /\ get_queue(chat_cache, c) = <<>> =>
                   /\ remove_current_song(chat_cache, c) =
                          [cache |-> chat_cache, ret |-> None]
                   /\ \A i \in Indexes :
                          remove_track(chat_cache, c, i) =
                              [cache |-> chat_cache, ret |-> FALSE]
                   /\ \A n \in LoopArgs :
                          set_loop_count(chat_cache, c, n) =
                              [cache |-> chat_cache, ret |-> FALSE]
            /\ c \notin DOMAIN chat_cache =>
                   /\ c \notin DOMAIN cc
                   /\ ~is_active(cc, c)
                   /\ get_queue_length(cc, c) = 0
                   /\ get_queue(cc, c) = <<>>
                   /\ get_loop_count(cc, c) = 0
                   /\ get_playing_track(cc, c) = None
                   /\ get_upcoming_track(cc, c) = None
                   /\ c \notin Elems(get_active_chats(cc))

\* one chat is untracked while another is tracked with a queue that the
\* pops have drained
QueriesPureWitness ==
    \E c \in Chats, d \in Chats :
        /\ c \notin DOMAIN chat_cache
        /\ d \in DOMAIN chat_cache
        /\ get_queue(chat_cache, d) = <<>>
        /\ run[d].popped # <<>>

\* C39: add_song on a tracked chat leaves its is_active flag as it is; after
\* set_active(chat, False) any number of add_song calls leaves the chat
\* inactive and out of get_active_chats until set_active(chat, True); only
\* add_song on an untracked chat makes it active.
EnqueueKeepsActive ==
    \A c \in Chats, s \in Songs :
        LET one == add_song(chat_cache, c, s)
            off == set_active(chat_cache, c, FALSE)
            two == add_song(add_song(off, c, s), c, Song1)
            on == set_active(two, c, TRUE)
        IN  /\ is_active(one, c) =
                   (c \in DOMAIN chat_cache => is_active(chat_cache, c))
            /\ ~is_active(two, c)
            /\ c \notin Elems(get_active_chats(two))
            /\ is_active(on, c)
            /\ c \in Elems(get_active_chats(on))

\* entries were added to a chat that had been switched off, and no chat is
\* active
EnqueueKeepsActiveWitness ==
    \E c \in Chats :
        /\ c \in DOMAIN chat_cache
        /\ ~is_active(chat_cache, c)
        /\ get_queue_length(chat_cache, c) = MaxQueue
        /\ get_active_chats(chat_cache) = <<>>

-----------------------------------------------------------------------------
\* Input validation of ApiData. A query is a string of tokens, each standing
\* for a piece of text: white space, a scheme, the host and kind part of a
\* platform URL, letters, digits, and the two separators.

MaxQuery == 3

Tokens ==
    {" ", "https://", "open.spotify.com/track/", "soundcloud.com/",
     "music.apple.com/album/x/", "abc", "12", "?", "#"}

\* the values given to ApiData(): no query, or a string
Queries ==
    {None} \cup {Some(q) : q \in UNION {[1 .. n -> Tokens] : n \in 0 .. MaxQuery}}

\* str.strip()
RECURSIVE Strip(_)
Strip(q) ==
    IF q = <<>> THEN q
    ELSE IF Head(q) = " " THEN Strip(Tail(q))
    ELSE IF q[Len(q)] = " " THEN Strip(SubSeq(q, 1, Len(q) - 1))
    ELSE q

\* str.split(sep)[0]
RECURSIVE Before(_, _)
Before(q, sep) ==
    IF q = <<>> \/ Head(q) = sep THEN <<>>
    ELSE <<Head(q)>> \o Before(Tail(q), sep)

\* ApiData._sanitize_query
sanitize_query(q) == Before(Before(Strip(q), "?"), "#")

\* ApiData.__init__ line 51: self.query
init_query(raw) ==
    IF raw # None /\ raw[1] # <<>> THEN Some(sanitize_query(raw[1])) ELSE None

\* the character classes of the patterns
Alnum == {"abc", "12"}
Digits == {"12"}

\* URL_PATTERNS: for each platform the host part and the class of the
\* identifier that follows it
URL_PATTERNS ==
    [apple_music |-> [host |-> "music.apple.com/album/x/", id |-> Digits],
     spotify |-> [host |-> "open.spotify.com/track/", id |-> Alnum],
     soundcloud |-> [host |-> "soundcloud.com/", id |-> Alnum]]

\* pattern.match(url): an optional scheme, the host part, one or more
\* identifier characters, then the end or a "?" followed by anything
Match(pattern, url) ==
    LET body == IF url # <<>> /\ Head(url) = "https://" THEN Tail(url) ELSE url
    IN  /\ Len(body) >= 2
        /\ body[1] = pattern.host
        /\ \E k \in 2 .. Len(body) :
              /\ \A i \in 2 .. k : body[i] \in pattern.id
              /\ k = Len(body) \/ body[k + 1] = "?"

\* mutant: every non-empty query passes for a platform URL
is_valid_always(url) == url # None /\ url # Some(<<>>)

\* ApiData.is_valid; self.api_url is a non-empty literal
is_valid(url) ==
    IF url = None \/ url = Some(<<>>) THEN FALSE
    ELSE \E name \in DOMAIN URL_PATTERNS : Match(URL_PATTERNS[name], url[1])

\* "not self.query"
NoQuery(a) == a.query = None \/ a.query = Some(<<>>)

\* _make_api_request is entered: the request for the endpoint goes out
Requesting(a, endpoint) ==
    [a EXCEPT !.pc = "request", !.sent = Append(@, endpoint)]

\* the call returns a result
Returning(a, out) == [a EXCEPT !.pc = "returned", !.out = out]

\* ApiData.get_info up to its first suspension
get_info(a) ==
    IF NoQuery(a) \/ ~is_valid(a.query)
    THEN Returning(a, Error(400, "Invalid or unsupported URL provided"))
    ELSE Requesting(a, "get_url")

\* ApiData.search up to its first suspension
search(a) ==
    IF NoQuery(a)
    THEN Returning(a, Error(400, "No search query provided"))
    ELSE IF is_valid(a.query) THEN get_info(a)
    ELSE Requesting(a, "search_track")

\* ApiData.get_track up to its first suspension
get_track(a) ==
    IF NoQuery(a)
    THEN Returning(a, Error(400, "No track identifier provided"))
    ELSE Requesting(a, "get_track")

\* TrackInfo, or the error of the branch taken, lines 172-223
track_info(r) ==
    IF r = Null THEN Error(404, "Track not found")
    ELSE IF r.t = "dict"
         THEN IF \A kv \in r.d : kv[2].t = "str"
              THEN [t |-> "TrackInfo", code |-> 0, message |-> "",
                    tracks |-> <<>>]
              ELSE Error(500, "Failed to process track data")
    ELSE IF r.t = "bytes"
         THEN Error(500, "Failed to process MP3 file")
    ELSE Error(500, "Unexpected response format from API")

\* the answers of the upstream API that the calls are given
ApiAnswers ==
    {Null, BytesV, DictV(({})), DictV(({<<"id", StrV(<<"i">>)>>})),
     DictV(({<<"name", IntV(5)>>}))}

InitApi ==
    /\ CacheStart
    /\ JobStart
    /\ CbStart
    /\ AcqStart
    /\ ReqStart
    /\ SanStart
    /\ NormStart
    /\ track = [cdnurl |-> TRUE, key |-> TRUE]
    /\ api \in {[NoApiCall EXCEPT !.raw = raw, !.query = init_query(raw)] :
                   raw \in Queries}

ApiGetInfo ==
    /\ api.pc = "idle"
    /\ api' = get_info([api EXCEPT !.op = "get_info"])
    /\ UNCHANGED <<cacheVars, acqVars, reqVars, sanVars, normVars, sem, stage, cb>>

ApiSearch ==
    /\ api.pc = "idle"
    /\ api' = search([api EXCEPT !.op = "search"])
    /\ UNCHANGED <<cacheVars, acqVars, reqVars, sanVars, normVars, sem, stage, cb>>

ApiGetTrack ==
    /\ api.pc = "idle"
    /\ api' = get_track([api EXCEPT !.op = "get_track"])
    /\ UNCHANGED <<cacheVars, acqVars, reqVars, sanVars, normVars, sem, stage, cb>>

\* _make_api_request returns what make_request returned, and the call ends
ApiAnswer(r) ==
    /\ api.pc = "request"
    /\ api' = Returning(api, IF api.op = "get_track" THEN track_info(r)
                             ELSE tracks_or_error(r))
    /\ UNCHANGED <<cacheVars, acqVars, reqVars, sanVars, normVars, sem, stage, cb>>

NextApi ==
    \/ ApiGetInfo
    \/ ApiSearch
    \/ ApiGetTrack
    \/ \E r \in ApiAnswers : ApiAnswer(r)

SpecApi == InitApi /\ [][NextApi]_vars

\* C31: invalid input is answered at once with the 400 error and reaches no
\* endpoint: get_info with an empty query or with a query that matches no
\* platform pattern, search with an empty query and get_track with an empty
\* identifier have returned Error 400 with no request sent.
InvalidInputNoRequest ==
    LET empty == api.raw = None \/ sanitize_query(api.raw[1]) = <<>>
        unsupported ==
            \A name \in DOMAIN URL_PATTERNS :
                ~Match(URL_PATTERNS[name], sanitize_query(api.raw[1]))
        invalid ==
            \/ api.op = "get_info" /\ (empty \/ unsupported)
            \/ api.op \in {"search", "get_track"} /\ empty
    IN  invalid =>
            /\ api.pc = "returned"
            /\ api.out.t = "Error"
            /\ api.out.code = 400
            /\ api.sent = <<>>

\* get_info was called with a query that is not empty and is no platform
\* URL, and search with a query that is only white space and a fragment
InvalidInputNoRequestWitness ==
    \/ /\ api.op = "get_info"
       /\ api.raw = Some(<<"https://", "abc", "?">>)
       /\ api.out = Error(400, "Invalid or unsupported URL provided")
       /\ api.sent = <<>>
    \/ /\ api.op = "search"
       /\ api.raw = Some(<<" ", "#", "abc">>)
       /\ api.out = Error(400, "No search query provided")

-----------------------------------------------------------------------------
\* The guarded sections of jobs.py: the idle-call scans started by
\* end_inactive_calls and the participant-update handlers all enter through
\* "async with _concurrency_limiter". The semaphore is asyncio's: a counter
\* and a first-in first-out queue of waiting futures. The coroutines run the
\* same code around the semaphore, so one of them ("me") is followed and the
\* other MaxWorkers - 1 are counted; a waiter whose future is done holds a
\* permit and is at the front of the queue, before every pending one.

\* the ways out of the section of _end_inactive_calls (lines 38-58) and of
\* handle_participant_update (lines 136-224)
Paths ==
    {"vc_users_error", "listeners", "played_time_error", "started_recently",
     "call_ended", "no_supergroup", "status_error", "no_admin", "processed",
     "raised", "cancelled"}

\* how many coroutines are inside the section
Inside == stage.inside + (IF stage.me = "inside" THEN 1 ELSE 0)

\* the other coroutines in the queue
Queued == Len(SelectSeq(sem.waiters, LAMBDA x : x = "other"))

\* Semaphore.locked(): no permit left, or somebody is queued
locked(s) == s.value = 0 \/ s.waiters # <<>>

\* Semaphore._wake_up_next(): the permit goes to the first waiter whose
\* future is still pending; s and st are the semaphore and the stages
wake_up_next(s, st) ==
    IF s.woken = Len(s.waiters) THEN [sem |-> s, stage |-> st]
    ELSE [sem |-> [s EXCEPT !.value = @ - 1, !.woken = @ + 1],
          stage |-> IF s.waiters[s.woken + 1] = "me"
                    THEN [st EXCEPT !.me = "woken"]
                    ELSE st]

\* Semaphore.release()
release(s, st) == wake_up_next([s EXCEPT !.value = @ + 1], st)

\* mutant: the permit is given back only on a return, as with a bare
\* acquire() and release() around the body
released_on_return(path) == path \notin {"raised", "cancelled"}

\* "async with": __aexit__ releases on every way out of the body
released(path) == TRUE

\* the queue without its entry at position i
Without(waiters, i) ==
    SubSeq(waiters, 1, i - 1) \o SubSeq(waiters, i + 1, Len(waiters))

\* the position of the followed coroutine in the queue
MyPlace == CHOOSE i \in 1 .. Len(sem.waiters) : sem.waiters[i] = "me"

\* lines 37-38 and 134-136: a coroutine is started and reaches
\* "async with _concurrency_limiter"; it goes in at once when the semaphore
\* is not locked and queues up otherwise
Enter(who) ==
    /\ IF who = "me" THEN stage.me = "idle"
       ELSE stage.inside + Queued < MaxWorkers - 1
    /\ IF locked(sem)
       THEN /\ sem' = [sem EXCEPT !.waiters = Append(@, who)]
            /\ stage' = IF who = "me" THEN [stage EXCEPT !.me = "wait"]
                        ELSE stage
       ELSE /\ sem' = [sem EXCEPT !.value = @ - 1]
            /\ stage' = IF who = "me" THEN [stage EXCEPT !.me = "inside"]
                        ELSE [stage EXCEPT !.inside = @ + 1]
    /\ UNCHANGED <<cacheVars, acqVars, reqVars, sanVars, normVars, api, cb>>

\* the waiter at position i, whose future is done, runs again: it leaves
\* the queue, passes a spare permit on and enters the body
Resume(i) ==
    /\ i \in 1 .. sem.woken
    /\ LET who == sem.waiters[i]
           s == [sem EXCEPT !.waiters = Without(@, i), !.woken = @ - 1]
           st == IF who = "me" THEN [stage EXCEPT !.me = "inside"]
                 ELSE [stage EXCEPT !.inside = @ + 1]
           r == IF s.value > 0 THEN wake_up_next(s, st)
                ELSE [sem |-> s, stage |-> st]
       IN  /\ sem' = r.sem
           /\ stage' = r.stage
    /\ UNCHANGED <<cacheVars, acqVars, reqVars, sanVars, normVars, api, cb>>

\* a coroutine leaves the body by one of its ways out
Leave(who, path) ==
    /\ IF who = "me" THEN stage.me = "inside" ELSE stage.inside > 0
    /\ LET st == IF who = "me" THEN [stage EXCEPT !.me = "idle"]
                 ELSE [stage EXCEPT !.inside = @ - 1]
           r == IF released(path) THEN release(sem, st)
                ELSE [sem |-> sem, stage |-> st]
       IN  /\ sem' = r.sem
           /\ stage' = r.stage
    /\ UNCHANGED <<cacheVars, acqVars, reqVars, sanVars, normVars, api, cb>>

\* the waiter at position i is cancelled: a pending future is dropped from
\* the queue, a permit already handed over is given back
Cancel(i) ==
    /\ i \in 1 .. Len(sem.waiters)
    /\ LET who == sem.waiters[i]
           held == i <= sem.woken
           s == [sem EXCEPT !.waiters = Without(@, i),
                            !.woken = IF held THEN @ - 1 ELSE @]
           st == IF who = "me" THEN [stage EXCEPT !.me = "idle"] ELSE stage
           r == IF held THEN release(s, st) ELSE [sem |-> s, stage |-> st]
       IN  /\ sem' = r.sem
           /\ stage' = r.stage
    /\ UNCHANGED <<cacheVars, acqVars, reqVars, sanVars, normVars, api, cb>>

InitJobs ==
    /\ CacheStart
    /\ JobStart
    /\ ApiStart
    /\ CbStart
    /\ AcqStart
    /\ ReqStart
    /\ SanStart
    /\ NormStart
    /\ track = [cdnurl |-> TRUE, key |-> TRUE]

NextJobs ==
    \/ \E who \in {"me", "other"} : Enter(who)
    \/ \E i \in 1 .. MaxWorkers : Resume(i)
    \/ \E who \in {"me", "other"}, path \in Paths : Leave(who, path)
    \/ \E i \in 1 .. MaxWorkers : Cancel(i)

SpecJobs == InitJobs /\ [][NextJobs]_vars

\* every call awaited inside the body returns or raises in the end, and the
\* event loop runs a task whose future is done
SpecJobsFair ==
    /\ SpecJobs
    /\ \A who \in {"me", "other"} : WF_vars(\E path \in Paths : Leave(who, path))
    /\ WF_vars(stage.me = "woken" /\ Resume(MyPlace))
    /\ WF_vars(\E i \in 1 .. MaxWorkers :
                   i \in 1 .. sem.woken /\ sem.waiters[i] = "other" /\ Resume(i))

-----------------------------------------------------------------------------
\* callback_query: one callback query at a time on its way through the
\* handler, while other handlers switch chats on and off in the cache.

\* the playback controls
Controls == {"play_skip", "play_stop", "play_pause", "play_resume"}

\* the callback data the handler is given
CallbackData ==
    Controls \cup {"play_close", "play_timer", "play_c_x", "play_spotify_x"}

\* mutant: no action asks for an administrator
requires_admin_never(action) == FALSE

\* requires_admin, lines 49-57
requires_admin(action) == action \in Controls \cup {"play_close"}

\* requires_active_chat, lines 59-67
requires_active_chat(action) == action \in Controls \cup {"play_timer"}

\* the method of the audio transport behind each control, lines 109-144
Transport(action) ==
    CASE action = "play_skip" -> "play_next"
      [] action = "play_stop" -> "end"
      [] action = "play_pause" -> "pause"
      [] action = "play_resume" -> "resume"

\* lines 102-168, run without a suspension: the check for an active chat
\* and the branch taken for the data, up to the call it awaits
Dispatch(q, cc) ==
    IF requires_active_chat(q.data) /\ ~is_active(cc, q.chat)
    THEN [q EXCEPT !.pc = "respond", !.answer = "No active playback session"]
    ELSE IF q.data \in Controls
    THEN [q EXCEPT !.pc = "transport",
                   !.calls = Append(@, <<Transport(q.data), q.chat>>)]
    ELSE IF q.data = "play_close" THEN [q EXCEPT !.pc = "delete"]
    ELSE [q EXCEPT !.pc = "other"]

\* a callback query arrives, lines 30-36
CbReceive(data, chat) ==
    /\ cb.pc \in {"idle", "returned"}
    /\ cb' = [NoCallback EXCEPT !.pc = "get_message", !.data = data,
                                !.chat = chat]
    /\ UNCHANGED <<cacheVars, acqVars, reqVars, sanVars, normVars, api, sem, stage>>

\* message.getMessage() has answered, lines 36-39
CbGetMessage(ok) ==
    /\ cb.pc = "get_message"
    /\ cb' = [cb EXCEPT !.pc = IF ok THEN "get_user" ELSE "returned"]
    /\ UNCHANGED <<cacheVars, acqVars, reqVars, sanVars, normVars, api, sem, stage>>

\* c.getUser() has answered, lines 41-46
CbGetUser(ok) ==
    /\ cb.pc = "get_user"
    /\ cb' = [cb EXCEPT !.pc = IF ok THEN "load_admins" ELSE "returned"]
    /\ UNCHANGED <<cacheVars, acqVars, reqVars, sanVars, normVars, api, sem, stage>>

\* load_admin_cache() has returned; line 96 asks is_admin when the action
\* requires an administrator, and the handler goes on otherwise
CbLoadAdmins ==
    /\ cb.pc = "load_admins"
    /\ cb' = IF requires_admin(cb.data) THEN [cb EXCEPT !.pc = "is_admin"]
             ELSE Dispatch(cb, chat_cache)
    /\ UNCHANGED <<cacheVars, acqVars, reqVars, sanVars, normVars, api, sem, stage>>

\* is_admin() has answered, lines 96-100
CbIsAdmin(admin) ==
    /\ cb.pc = "is_admin"
    /\ cb' = IF admin THEN Dispatch([cb EXCEPT !.admin = "yes"], chat_cache)
             ELSE [cb EXCEPT !.pc = "respond", !.admin = "no",
                             !.answer = "Administrator privileges required"]
    /\ UNCHANGED <<cacheVars, acqVars, reqVars, sanVars, normVars, api, sem, stage>>

\* the transport has returned its result, lines 110-152
CbTransport(ok) ==
    /\ cb.pc = "transport"
    /\ cb' = [cb EXCEPT !.pc = "respond",
                        !.answer = IF ok THEN "done" ELSE "Playback error"]
    /\ UNCHANGED <<cacheVars, acqVars, reqVars, sanVars, normVars, api, sem, stage>>

\* the answer is sent (or the message deleted, or the request for a song
\* handed on) and the handler returns
CbReturn ==
    /\ cb.pc \in {"respond", "delete", "other"}
    /\ cb' = [cb EXCEPT !.pc = "returned"]
    /\ UNCHANGED <<cacheVars, acqVars, reqVars, sanVars, normVars, api, sem, stage>>

InitCallback ==
    /\ CacheStart
    /\ JobStart
    /\ ApiStart
    /\ CbStart
    /\ AcqStart
    /\ ReqStart
    /\ SanStart
    /\ NormStart
    /\ track = [cdnurl |-> TRUE, key |-> TRUE]

NextCallback ==
    \/ \E data \in CallbackData, chat \in Chats : CbReceive(data, chat)
    \/ \E ok \in BOOLEAN : CbGetMessage(ok)
    \/ \E ok \in BOOLEAN : CbGetUser(ok)
    \/ CbLoadAdmins
    \/ \E admin \in BOOLEAN : CbIsAdmin(admin)
    \/ \E ok \in BOOLEAN : CbTransport(ok)
    \/ CbReturn
    \/ \E c \in Chats, b \in BOOLEAN : SetActive(c, b)
    \/ \E c \in Chats : ClearChat(c)

SpecCallback == InitCallback /\ [][NextCallback]_vars

\* C40: a playback control reaches the audio transport only when
\* authorized: the handler calls the transport only for one of the four
\* controls, with the method of that control on the chat of the query, in
\* the step in which is_admin answered yes and the cache has the chat
\* active; a step of the handler that makes no such call leaves the cache
\* as it is, and a control that was refused has made no call.
AuthorizedTransport ==
    [][/\ Len(cb'.calls) > Len(cb.calls) =>
              /\ cb.data \in Controls
              /\ cb'.calls = Append(cb.calls, <<Transport(cb.data), cb.chat>>)
              /\ cb.pc = "is_admin"
              /\ cb'.admin = "yes"
              /\ is_active(chat_cache, cb.chat)
       /\ cb' # cb => chat_cache' = chat_cache
       /\ (cb'.pc = "returned" /\ cb'.answer # "done"
               /\ cb'.answer # "Playback error") => cb'.calls = <<>>
      ]_vars

\* play_stop of an administrator has reached the transport for a chat that
\* was active then and has been switched off since
AuthorizedTransportWitness ==
    \E c \in Chats :
        /\ cb.data = "play_stop"
        /\ cb.chat = c
        /\ cb.admin = "yes"
        /\ cb.calls = <<<<"end", c>>>>
        /\ ~is_active(chat_cache, c)

=============================================================================
